---- MODULE Spec2Model ----
(***************************************************************************)
(* Members API (AWS Lambda): router, authorization checks, request         *)
(* sanitizers, member service, member repository and image service,        *)
(* modelled as a state machine over the member table and the object store. *)
(*                                                                         *)
(* A JavaScript string is a sequence of tokens (<<"A">>, <<" ", "B">>),    *)
(* so that trim, split and endsWith are computed, not assumed.  An object  *)
(* is a function whose DOMAIN is the set of its defined properties, so     *)
(* `x.f !== undefined` is `"f" \in DOMAIN x`.                             *)
(***************************************************************************)
EXTENDS Integers, Sequences, FiniteSets, TLC

VARIABLES
    table,   \* member table: id -> item
    s3,      \* object store: key -> object
    uuids,   \* number of identifiers uuidv4() has produced so far
    served,  \* number of requests the handler has answered
    pc,      \* "idle": awaiting an invocation; "responded": handler returned
    req,     \* the event of the invocation just handled
    pre,     \* the table and the object store when that invocation began
    resp,    \* what the handler returned (or that an exception escaped)
    index,   \* vector index: vector id -> vector
    run,     \* the embedding sync: the batch run's position and the last syncs
    flight   \* update requests being served at the same time, step by step

vars == <<table, s3, uuids, served, pc, req, pre, resp, index, run, flight>>

(***************************************************************************)
(* Bounds                                                                  *)
(***************************************************************************)
MaxRequests == 3      \* invocations in one behaviour
MaxUuids == 4         \* identifiers uuidv4() can hand out
MaxSyncs == 2         \* direct calls of syncMemberToPinecone in one behaviour
PageSize == 1         \* items the store evaluates per Scan page

(***************************************************************************)
(* Strings                                                                 *)
(***************************************************************************)
S(tok) == <<tok>>
EmptyStr == << >>
EmptyObj == [x \in {} |-> x]

IsSpace(tok) == tok = " "

RECURSIVE TrimStart(_)
TrimStart(s) ==
    IF s = EmptyStr THEN EmptyStr
    ELSE IF IsSpace(Head(s)) THEN TrimStart(Tail(s)) ELSE s

RECURSIVE TrimEnd(_)
TrimEnd(s) ==
    IF s = EmptyStr THEN EmptyStr
    ELSE IF IsSpace(s[Len(s)]) THEN TrimEnd(SubSeq(s, 1, Len(s) - 1)) ELSE s

\* String.prototype.trim
Trim(s) == TrimEnd(TrimStart(s))

\* String.prototype.endsWith
EndsWith(s, suffix) ==
    /\ Len(s) >= Len(suffix)
    /\ SubSeq(s, Len(s) - Len(suffix) + 1, Len(s)) = suffix

Has(obj, f) == f \in DOMAIN obj

\* String.prototype.split for a one-token separator
RECURSIVE Split(_, _)
Split(s, sep) ==
    IF \A i \in 1..Len(s) : s[i] # sep THEN <<s>>
    ELSE LET i == CHOOSE j \in 1..Len(s) :
                     s[j] = sep /\ \A k \in 1..(j - 1) : s[k] # sep
         IN  <<SubSeq(s, 1, i - 1)>> \o Split(SubSeq(s, i + 1, Len(s)), sep)

\* String.prototype.toLowerCase on the tokens the model uses
ToLowerCase(s) == [i \in 1..Len(s) |-> IF s[i] = "MP4" THEN "mp4" ELSE s[i]]

\* Array.prototype.includes / some
Includes(arr, x) == \E i \in 1..Len(arr) : arr[i] = x

(***************************************************************************)
(* The world a handler invocation acts on, and the result of a call:       *)
(* Ret(v, w) is a normal return, Throw(m, w) a raised Error with message m *)
(***************************************************************************)
World(t, o, u) == [table |-> t, s3 |-> o, uuids |-> u, calls |-> << >>]
Ret(v, w) == [threw |-> FALSE, value |-> v, w |-> w]
Throw(m, w) == [threw |-> TRUE, message |-> m, w |-> w]
Log(w, c) == [w EXCEPT !.calls = Append(@, c)]

\* uuid.v4(): the k-th identifier handed out; never repeats
uuidv4Repeating(k) == S("u1")

uuidv4(k) == S("u" \o ToString(k + 1))

\* the place of an identifier in the order of a Scan
UuidIndex(id) == CHOOSE i \in 1..(MaxUuids + 2) : id = uuidv4(i - 1)

(***************************************************************************)
(* authService: role claims                                                *)
(***************************************************************************)
Claims(event) ==
    IF Has(event.requestContext, "claims") THEN event.requestContext.claims
    ELSE EmptyObj

\* event.requestContext?.authorizer?.claims?.['cognito:groups']?.split(',') || []
extractUserGroups(event, w) ==
    LET claims == Claims(event) IN
    IF ~Has(claims, "groups") THEN Ret(<< >>, w)
    ELSE IF claims.groups.t = "string" THEN Ret(Split(claims.groups.v, ","), w)
    ELSE Throw(S("split is not a function"), w)

requiredGroups == <<S("MemberEditors"), S("Deity"), S("Administrator")>>

checkMemberAuthorization(event, w) ==
    LET userGroups == extractUserGroups(event, w) IN
    IF userGroups.threw THEN userGroups
    ELSE LET isAuthorized ==
                 \E i \in 1..Len(userGroups.value) :
                     Includes(requiredGroups, userGroups.value[i])
         IN  IF ~isAuthorized
             THEN Ret([statusCode |-> 403,
                       message |-> S("Unauthorized - insufficient permissions")], w)
             ELSE Ret([statusCode |-> 200, message |-> S("Authorized")], w)

characterGroups == <<S("Administrator"), S("Deity"), S("MemberEditor")>>

Truthy(obj, f) == Has(obj, f) /\ obj[f] # EmptyStr

\* the check of the character list letting every caller through
checkCharacterAccessOpen(event, w) ==
    Ret([statusCode |-> 200, message |-> S("Authorized")], w)

checkCharacterAccess(event, w) ==
    LET authClaims == Claims(event)
        hasClaims == Has(event.requestContext, "claims")
        requested == Truthy(event.pathParameters, "sub")
        differs ==
            IF Has(authClaims, "sub")
            THEN event.pathParameters.sub # authClaims.sub
            ELSE TRUE
        isInGroup ==
            IF ~Has(authClaims, "groups") THEN FALSE
            ELSE IF authClaims.groups.t = "string"
                 THEN Includes(characterGroups, authClaims.groups.v)
                 ELSE \E i \in 1..Len(authClaims.groups.v) :
                          Includes(characterGroups, authClaims.groups.v[i])
    IN  IF requested /\ differs /\ (~hasClaims \/ ~isInGroup)
        THEN Ret([statusCode |-> 403, message |-> S("Forbidden")], w)
        ELSE Ret([statusCode |-> 200, message |-> S("Authorized")], w)

(***************************************************************************)
(* mappingUtils: request sanitizers.  The member fields are modelled by    *)
(* one or more representatives of each kind the sanitizers treat alike:    *)
(* trimmed strings (name, title, owner, image), optional numbers (born),   *)
(* defaulted numbers (weight, hp, level) and arrays (groups).              *)
(***************************************************************************)
StringFields == {"name", "title", "owner", "image"}
NumberFields == {"born", "weight", "hp", "level"}
ArrayFields == {"groups"}
MemberFields == StringFields \cup NumberFields \cup ArrayFields

\* rawData.f?.toString().trim() || ''
TrimOrEmpty(rawData, f) == IF Has(rawData, f) THEN Trim(rawData[f]) ELSE EmptyStr

\* a numeric field that is always given its default
NumberDefaulted(rawData, f, dflt) == dflt

\* rawData.f ? Number(rawData.f) : dflt
NumberOr(rawData, f, dflt) ==
    IF Has(rawData, f) /\ rawData[f] # 0 THEN rawData[f] ELSE dflt

\* the create sanitizer passing the name on as it came, not trimmed
sanitizeCreateUntrimmed(rawData) ==
    LET born == Has(rawData, "born") /\ rawData.born # 0
    IN  [f \in (MemberFields \ {"born"}) \cup (IF born THEN {"born"} ELSE {}) |->
            CASE f = "name" -> IF Has(rawData, f) THEN rawData[f] ELSE EmptyStr
              [] f \in StringFields -> TrimOrEmpty(rawData, f)
              [] f = "born" -> rawData.born
              [] f = "weight" -> NumberOr(rawData, "weight", 0)
              [] f = "hp" -> NumberOr(rawData, "hp", 1)
              [] f = "level" -> NumberOr(rawData, "level", 1)
              [] f \in ArrayFields -> IF Has(rawData, f) THEN rawData[f] ELSE << >>]

sanitizeCreateMemberRequest(rawData) ==
    LET born == Has(rawData, "born") /\ rawData.born # 0
    IN  [f \in (MemberFields \ {"born"}) \cup (IF born THEN {"born"} ELSE {}) |->
            CASE f \in StringFields -> TrimOrEmpty(rawData, f)
              [] f = "born" -> rawData.born
              [] f = "weight" -> NumberOr(rawData, "weight", 0)
              [] f = "hp" -> NumberOr(rawData, "hp", 1)
              [] f = "level" -> NumberOr(rawData, "level", 1)
              [] f \in ArrayFields -> IF Has(rawData, f) THEN rawData[f] ELSE << >>]

\* the update sanitizer filling absent fields with defaults, as create does
sanitizeUpdateWithDefaults(rawData) == sanitizeCreateMemberRequest(rawData)

sanitizeUpdateMemberRequest(rawData) ==
    [f \in MemberFields \cap DOMAIN rawData |->
        IF f \in StringFields THEN Trim(rawData[f]) ELSE rawData[f]]

getStatusCodeFromError(errorCode) ==
    CASE errorCode = "VALIDATION_ERROR" -> 400
      [] errorCode = "MEMBER_NOT_FOUND" -> 404
      [] errorCode = "UNAUTHORIZED" -> 401
      [] errorCode = "FORBIDDEN" -> 403
      [] OTHER -> 500

convertServiceResponse(serviceResponse) ==
    IF serviceResponse.success
    THEN [statusCode |-> 200, body |-> serviceResponse.data]
    ELSE [statusCode |-> getStatusCodeFromError(serviceResponse.error.code),
          body |-> serviceResponse.error]

\* path.split('/').filter(segment => segment.length > 0)
getPathSegments(path) == SelectSeq(Split(path, "/"), LAMBDA seg : Len(seg) > 0)

Ok(data) == [success |-> TRUE, data |-> data]
Err(code, message) ==
    [success |-> FALSE, error |-> [code |-> code, message |-> message]]

(***************************************************************************)
(* The managed key-value store, as the document client presents it.  An    *)
(* event's fault says which of the invocation's calls the store rejects.   *)
(***************************************************************************)
StoreError == S("store unavailable")

DdbGet(w, id, fault) ==
    IF fault = "get"
    THEN Throw(StoreError, Log(w, [svc |-> "ddb", op |-> "Get", key |-> id, ok |-> FALSE]))
    ELSE Ret(IF id \in DOMAIN w.table THEN [Item |-> w.table[id]] ELSE EmptyObj,
             Log(w, [svc |-> "ddb", op |-> "Get", key |-> id, ok |-> TRUE]))

DdbPut(w, item, fault) ==
    IF fault = "write"
    THEN Throw(StoreError, Log(w, [svc |-> "ddb", op |-> "Put", key |-> item.id, ok |-> FALSE]))
    ELSE Ret(item,
             Log([w EXCEPT !.table = (item.id :> item) @@ @],
                 [svc |-> "ddb", op |-> "Put", key |-> item.id, ok |-> TRUE]))

\* an UpdateCommand that puts the item anew from the values it sets
DdbUpdateReplacing(w, id, sets, fault) ==
    IF fault = "write" \/ Has(sets, "id")
    THEN Throw(StoreError, Log(w, [svc |-> "ddb", op |-> "Update", key |-> id, ok |-> FALSE]))
    ELSE LET new == sets @@ [id |-> id]
         IN  Ret(new, Log([w EXCEPT !.table = (id :> new) @@ @],
                          [svc |-> "ddb", op |-> "Update", key |-> id, ok |-> TRUE]))

\* UpdateItem with a SET expression: an upsert on the key, every other
\* attribute of the item is left as it is; ReturnValues ALL_NEW
DdbUpdate(w, id, sets, fault) ==
    IF fault = "write" \/ Has(sets, "id")
    THEN Throw(StoreError, Log(w, [svc |-> "ddb", op |-> "Update", key |-> id, ok |-> FALSE]))
    ELSE LET old == IF id \in DOMAIN w.table THEN w.table[id] ELSE [id |-> id]
             new == sets @@ old
         IN  Ret(new, Log([w EXCEPT !.table = (id :> new) @@ @],
                          [svc |-> "ddb", op |-> "Update", key |-> id, ok |-> TRUE]))

\* the keys of the table in the order a Scan walks them
RECURSIVE ScanOrder(_)
ScanOrder(ids) ==
    IF ids = {} THEN << >>
    ELSE LET first == CHOOSE id \in ids :
                          \A other \in ids : UuidIndex(id) <= UuidIndex(other)
         IN  <<first>> \o ScanOrder(ids \ {first})

\* FilterExpression '#owner = :owner' (no filter: every item passes)
Passes(item, filter) ==
    Has(filter, "owner") => (Has(item, "owner") /\ item.owner = filter.owner)

\* ProjectionExpression (no projection: every attribute)
Projected(item, projection) ==
    IF projection = {} THEN item
    ELSE [f \in DOMAIN item \cap projection |-> item[f]]

\* one Scan page: PageSize items are evaluated after ExclusiveStartKey, the
\* ones that pass the filter are returned, LastEvaluatedKey is set if items remain
DdbScanPage(w, start, filter, projection, fault) ==
    LET order == ScanOrder(DOMAIN w.table)
        last == IF start + PageSize < Len(order) THEN start + PageSize ELSE Len(order)
        page == SubSeq(order, start + 1, last)
        kept == SelectSeq(page, LAMBDA id : Passes(w.table[id], filter))
    IN  IF fault = "get"
        THEN Throw(StoreError, Log(w, [svc |-> "ddb", op |-> "Scan", key |-> EmptyStr, ok |-> FALSE]))
        ELSE Ret([Items |-> [i \in 1..Len(kept) |-> Projected(w.table[kept[i]], projection)],
                  LastEvaluatedKey |-> IF last < Len(order) THEN last ELSE 0],
                 Log(w, [svc |-> "ddb", op |-> "Scan", key |-> EmptyStr, ok |-> TRUE]))

(***************************************************************************)
(* MemberRepository                                                        *)
(***************************************************************************)
\* request.f || dflt, for a string and for a number
StrOr(request, f, dflt) ==
    IF Has(request, f) /\ request[f] # EmptyStr THEN request[f] ELSE dflt
NumOr(request, f, dflt) ==
    IF Has(request, f) /\ request[f] # 0 THEN request[f] ELSE dflt

\* attributes whose value is undefined are not marshalled into the item
RepoCreate(w, request, fault) ==
    LET id == uuidv4(w.uuids)
        w1 == [w EXCEPT !.uuids = @ + 1]
        dbMember ==
            [f \in {"id", "name", "title", "owner", "weight", "hp", "level", "groups"}
                   \cup (DOMAIN request \cap {"born", "image"}) |->
                CASE f = "id" -> id
                  [] f \in {"name", "title", "owner"} -> StrOr(request, f, EmptyStr)
                  [] f = "weight" -> NumOr(request, "weight", 0)
                  [] f = "hp" -> NumOr(request, "hp", 1)
                  [] f = "level" -> NumOr(request, "level", 1)
                  [] f = "groups" -> IF Has(request, f) THEN request[f] ELSE << >>
                  [] OTHER -> request[f]]
    IN  DdbPut(w1, dbMember, fault)

\* result.Item, or null when the store has no item under the key
GetByIdResult(result) ==
    IF result.threw THEN result
    ELSE IF ~Has(result.value, "Item") THEN Ret(EmptyObj, result.w)
    ELSE Ret([Item |-> result.value.Item], result.w)

RepoGetById(w, id, fault) == GetByIdResult(DdbGet(w, id, fault))

\* a scan that stops after its first page
ScanFirstPage(result, allItems, filter, projection, fault) ==
    IF result.threw THEN result
    ELSE Ret(allItems \o result.value.Items, result.w)

\* the do/while loop over Scan pages shared by getAll and getByOwner
RECURSIVE ScanLoop(_, _, _, _, _)
ScanPages(result, allItems, filter, projection, fault) ==
    IF result.threw THEN result
    ELSE IF result.value.LastEvaluatedKey # 0
         THEN ScanLoop(result.w, allItems \o result.value.Items,
                       result.value.LastEvaluatedKey, filter, projection)
         ELSE Ret(allItems \o result.value.Items, result.w)

ScanLoop(w, allItems, lastEvaluatedKey, filter, projection) ==
    ScanPages(DdbScanPage(w, lastEvaluatedKey, filter, projection, "none"),
              allItems, filter, projection, "none")

ProjectionAll == {"id", "name", "born", "died", "image", "groups"}

RepoGetAll(w, fault) ==
    ScanPages(DdbScanPage(w, 0, EmptyObj, ProjectionAll, fault),
              << >>, EmptyObj, ProjectionAll, fault)

RepoGetByOwner(w, ownerId, fault) ==
    ScanPages(DdbScanPage(w, 0, [owner |-> ownerId], {}, fault),
              << >>, [owner |-> ownerId], {}, fault)

\* update without the check that there is something to update
RepoUpdateUnchecked(w, id, updates, fault) == DdbUpdate(w, id, updates, fault)

RepoUpdate(w, id, updates, fault) ==
    IF DOMAIN updates = {}
    THEN Throw(S("No valid updates provided"), w)
    ELSE DdbUpdate(w, id, updates, fault)

(***************************************************************************)
(* ImageService                                                            *)
(***************************************************************************)
maxSize == 1024 * 1024

getFileType(originalFilename) ==
    IF EndsWith(ToLowerCase(originalFilename), <<".", "mp4">>)
    THEN [mimeType |-> S("video/mp4"), extension |-> S("mp4"), isVideo |-> TRUE]
    ELSE [mimeType |-> S("image/jpeg"), extension |-> S("jpg"), isVideo |-> FALSE]

\* the file processing with the ceiling one byte lower
ProcessFileBelowCeiling(file, fileType) ==
    IF fileType.isVideo
    THEN IF file.size >= maxSize
         THEN [threw |-> TRUE, message |-> S("Video file must be smaller than 1MB")]
         ELSE [threw |-> FALSE, value |-> [data |-> file.data, size |-> file.size]]
    ELSE IF ~file.decodable
         THEN [threw |-> TRUE, message |-> S("Failed to resize image")]
         ELSE [threw |-> FALSE,
               value |-> [data |-> file.data, width |-> 300, height |-> 500]]

\* the bytes that go to the store: a video as it came, an image resized by
\* sharp to a 300x500 JPEG; either step can throw
ProcessFile(file, fileType) ==
    IF fileType.isVideo
    THEN IF file.size > maxSize
         THEN [threw |-> TRUE, message |-> S("Video file must be smaller than 1MB")]
         ELSE [threw |-> FALSE, value |-> [data |-> file.data, size |-> file.size]]
    ELSE IF ~file.decodable
         THEN [threw |-> TRUE, message |-> S("Failed to resize image")]
         ELSE [threw |-> FALSE,
               value |-> [data |-> file.data, width |-> 300, height |-> 500]]

S3Put(w, key, object, fault) ==
    IF fault = "s3"
    THEN Throw(StoreError, Log(w, [svc |-> "s3", op |-> "Put", key |-> key, ok |-> FALSE]))
    ELSE Ret(key, Log([w EXCEPT !.s3 = (key :> object) @@ @],
                      [svc |-> "s3", op |-> "Put", key |-> key, ok |-> TRUE]))

S3Head(w, key, fault) ==
    IF fault = "s3"
    THEN [threw |-> TRUE, name |-> "ServiceUnavailable", message |-> StoreError,
          w |-> Log(w, [svc |-> "s3", op |-> "Head", key |-> key, ok |-> FALSE])]
    ELSE IF key \notin DOMAIN w.s3
    THEN [threw |-> TRUE, name |-> "NotFound", message |-> S("NotFound"),
          w |-> Log(w, [svc |-> "s3", op |-> "Head", key |-> key, ok |-> FALSE])]
    ELSE [threw |-> FALSE, value |-> w.s3[key],
          w |-> Log(w, [svc |-> "s3", op |-> "Head", key |-> key, ok |-> TRUE])]

UploadOk(imageUrl) == [success |-> TRUE, imageUrl |-> imageUrl]
UploadFailed(error) == [success |-> FALSE, error |-> error]

\* the end of both upload methods: the PutObject succeeded, or the catch block
Sent(sent, prefix) ==
    IF sent.threw
    THEN Ret(UploadFailed(S(prefix) \o sent.message), sent.w)
    ELSE Ret(UploadOk(sent.value), sent.w)

UploadProcessed(w, processed, fileType, fault) ==
    IF processed.threw
    THEN Ret(UploadFailed(S("Failed to upload file: ") \o processed.message), w)
    ELSE Sent(S3Put([w EXCEPT !.uuids = @ + 1],
                    uuidv4(w.uuids) \o <<".">> \o fileType.extension,
                    [Body |-> processed.value, ContentType |-> fileType.mimeType],
                    fault),
              "Failed to upload file: ")

validateAndUploadImageToS3(w, file, fault) ==
    UploadProcessed(w, ProcessFile(file, getFileType(file.filename)),
                    getFileType(file.filename), fault)

UpdateProcessed(w, processed, fileType, existingImageKey, memberId, fault) ==
    IF processed.threw
    THEN Ret(UploadFailed(S("Failed to update file: ") \o processed.message), w)
    ELSE Sent(S3Put(w, existingImageKey,
                    [Body |-> processed.value, ContentType |-> fileType.mimeType,
                     Metadata |-> [member |-> memberId]],
                    fault),
              "Failed to update file: ")

UpdateHeaded(head, file, existingImageKey, memberId, fault) ==
    IF head.threw /\ head.name = "NotFound"
    THEN Ret(UploadFailed(S("File does not exist, cannot update")), head.w)
    ELSE IF head.threw
    THEN Ret(UploadFailed(S("Failed to update file: ") \o head.message), head.w)
    ELSE UpdateProcessed(head.w, ProcessFile(file, getFileType(existingImageKey)),
                         getFileType(existingImageKey), existingImageKey, memberId,
                         fault)

updateImageInS3(w, file, existingImageKey, memberId, fault) ==
    UpdateHeaded(S3Head(w, existingImageKey, fault), file, existingImageKey, memberId,
                 fault)

(***************************************************************************)
(* MemberService: every operation returns a tagged result and the world    *)
(***************************************************************************)
\* calling a method the object does not have raises a TypeError
NotAFunction(name) == S(name) \o S(" is not a function")

\* !id || id.trim().length === 0
IsBlank(str) == Len(Trim(str)) = 0

\* return { success: true, data }, or the catch block's INTERNAL_ERROR
Outcome(result, prefix) ==
    IF result.threw
    THEN Ret(Err("INTERNAL_ERROR", S(prefix) \o result.message), result.w)
    ELSE Ret(Ok(result.value), result.w)

\* createMember without the check of the name
SvcCreateMemberUnchecked(w, request, fault) ==
    Outcome(RepoCreate(w, request, fault), "Failed to create member: ")

SvcCreateMember(w, request, fault) ==
    IF ~Has(request, "name") \/ IsBlank(request.name)
    THEN Ret(Err("VALIDATION_ERROR", S("Member name cannot be empty")), w)
    ELSE Outcome(RepoCreate(w, request, fault), "Failed to create member: ")

GetMemberFound(member) ==
    IF member.threw
    THEN Ret(Err("INTERNAL_ERROR", S("Failed to get member: ") \o member.message),
             member.w)
    ELSE IF ~Has(member.value, "Item")
    THEN Ret(Err("MEMBER_NOT_FOUND", S("Member not found")), member.w)
    ELSE Ret(Ok(member.value.Item), member.w)

SvcGetMemberById(w, id, fault) ==
    IF IsBlank(id)
    THEN Ret(Err("VALIDATION_ERROR", S("Member ID is required")), w)
    ELSE GetMemberFound(RepoGetById(w, id, fault))

SvcGetAllMembers(w, fault) == Outcome(RepoGetAll(w, fault), "Failed to get members: ")

SvcGetMembersByOwner(w, ownerId, fault) ==
    IF IsBlank(ownerId)
    THEN Ret(Err("VALIDATION_ERROR", S("Owner ID is required")), w)
    ELSE Outcome(RepoGetByOwner(w, ownerId, fault), "Failed to get members: ")

\* updateMember from the existence check on
UpdateExisting(existingMember, id, updates, fault) ==
    IF existingMember.threw
    THEN Ret(Err("INTERNAL_ERROR",
                 S("Failed to update member: ") \o existingMember.message),
             existingMember.w)
    ELSE IF ~Has(existingMember.value, "Item")
    THEN Ret(Err("MEMBER_NOT_FOUND", S("Member not found")), existingMember.w)
    ELSE IF Has(updates, "name") /\ Len(Trim(updates.name)) = 0
    THEN Ret(Err("VALIDATION_ERROR", S("Member name cannot be empty")),
             existingMember.w)
    ELSE Outcome(RepoUpdate(existingMember.w, id, updates, fault),
                 "Failed to update member: ")

\* updateMember without the existence check
SvcUpdateMemberUnchecked(w, id, updates, fault) ==
    IF IsBlank(id)
    THEN Ret(Err("VALIDATION_ERROR", S("Member ID is required")), w)
    ELSE Outcome(RepoUpdate(w, id, updates, fault), "Failed to update member: ")

SvcUpdateMember(w, id, updates, fault) ==
    IF IsBlank(id)
    THEN Ret(Err("VALIDATION_ERROR", S("Member ID is required")), w)
    ELSE UpdateExisting(RepoGetById(w, id, fault), id, updates, fault)

\* deleteMember from the existence check on.  It calls
\* imageService.deleteImageFromS3 and memberRepository.delete.  ImageService
\* defines validateAndUploadImageToS3, updateImageInS3 and setImageMetadata;
\* MemberRepository defines create, getById, getAll, getByOwner, update,
\* getSessionsByMemberId and countSessionsByMemberId.  Neither method exists,
\* so each call raises a TypeError that the catch block turns into
\* INTERNAL_ERROR, and no record is removed.
DeleteExisting(existingMember, id) ==
    IF existingMember.threw
    THEN Ret(Err("INTERNAL_ERROR",
                 S("Failed to delete member: ") \o existingMember.message),
             existingMember.w)
    ELSE IF ~Has(existingMember.value, "Item")
    THEN Ret(Err("MEMBER_NOT_FOUND", S("Member not found")), existingMember.w)
    ELSE IF Truthy(existingMember.value.Item, "image")
    THEN Ret(Err("INTERNAL_ERROR",
                 S("Failed to delete member: ")
                     \o NotAFunction("this.imageService.deleteImageFromS3")),
             existingMember.w)
    ELSE Ret(Err("INTERNAL_ERROR",
                 S("Failed to delete member: ")
                     \o NotAFunction("this.memberRepository.delete")),
             existingMember.w)

SvcDeleteMember(w, id, fault) ==
    IF IsBlank(id)
    THEN Ret(Err("VALIDATION_ERROR", S("Member ID is required")), w)
    ELSE DeleteExisting(RepoGetById(w, id, fault), id)

(***************************************************************************)
(* handler.ts.  An event carries the method, the path, the authorizer      *)
(* context, the path parameters, whether the body is multipart, the JSON   *)
(* text of the member data as JSON.parse sees it (a value, or a syntax     *)
(* error), the form's file part and the fault of the environment.          *)
(***************************************************************************)
Http(statusCode, body) == [statusCode |-> statusCode, body |-> body]
Message(text) == [message |-> S(text)]

InvalidRoute(w) == Ret(Http(400, Message("Invalid route")), w)

\* convertServiceResponse(serviceResponse) on what a service operation returned
Converted(serviceResponse) ==
    Ret(convertServiceResponse(serviceResponse.value), serviceResponse.w)

Uploaded(memberData, uploadResult) ==
    Ret([memberData |-> memberData, upload |-> uploadResult.value], uploadResult.w)

\* the first half of createMember and updateMember: parse the member data,
\* then upload the image part if there is one
ParseAndUpload(event, w) ==
    IF ~event.body.ok THEN Throw(S("Unexpected token in JSON"), w)
    ELSE IF event.multipart /\ Has(event.form, "image")
    THEN Uploaded(event.body.value,
                  validateAndUploadImageToS3(w, event.form.image, event.fault))
    ELSE Ret([memberData |-> event.body.value, upload |-> EmptyObj], w)

\* if (imageS3Key) request.image = imageS3Key
WithImage(request, upload) ==
    IF Has(upload, "imageUrl") /\ upload.imageUrl # EmptyStr
    THEN ("image" :> upload.imageUrl) @@ request
    ELSE request

\* if (imageValidationError) responseBody.warning = ...
WithWarning(data, upload, text) ==
    IF Has(upload, "error") /\ upload.error # EmptyStr
    THEN ("warning" :> (S(text) \o upload.error)) @@ data
    ELSE data

\* the end of createMember and updateMember with a compensating delete: the
\* uploaded object is removed when the member write does not succeed
WrittenCompensating(serviceResponse, successCode, upload, text) ==
    IF serviceResponse.value.success
    THEN Ret(Http(successCode, WithWarning(serviceResponse.value.data, upload, text)),
             serviceResponse.w)
    ELSE IF ~Has(upload, "imageUrl")
    THEN Converted(serviceResponse)
    ELSE LET w == serviceResponse.w
             kept == [k \in DOMAIN w.s3 \ {upload.imageUrl} |-> w.s3[k]]
         IN  Converted([serviceResponse EXCEPT
                          !.w = Log([w EXCEPT !.s3 = kept],
                                    [svc |-> "s3", op |-> "Delete",
                                     key |-> upload.imageUrl, ok |-> TRUE])])

\* the end of createMember and updateMember
Written(serviceResponse, successCode, upload, text) ==
    IF serviceResponse.value.success
    THEN Ret(Http(successCode, WithWarning(serviceResponse.value.data, upload, text)),
             serviceResponse.w)
    ELSE Converted(serviceResponse)

\* the end of createMember with no catch block of its own
CreateParsedUncaught(parsed, fault) ==
    IF parsed.threw THEN parsed
    ELSE Written(SvcCreateMember(parsed.w,
                     WithImage(sanitizeCreateMemberRequest(parsed.value.memberData),
                               parsed.value.upload),
                     fault),
                 201, parsed.value.upload,
                 "Member created successfully, but image was not uploaded: ")

CreateParsed(parsed, fault) ==
    IF parsed.threw
    THEN Ret(Http(400, Message("Invalid request data")), parsed.w)
    ELSE Written(SvcCreateMember(parsed.w,
                     WithImage(sanitizeCreateMemberRequest(parsed.value.memberData),
                               parsed.value.upload),
                     fault),
                 201, parsed.value.upload,
                 "Member created successfully, but image was not uploaded: ")

createMember(event, w) == CreateParsed(ParseAndUpload(event, w), event.fault)

\* the end of updateMember with the write keyed by the id of the body
UpdateParsedByBodyId(parsed, memberId, fault) ==
    IF parsed.threw
    THEN Ret(Http(400, Message("Invalid request data")), parsed.w)
    ELSE IF ~Truthy(parsed.value.memberData, "id")
    THEN Ret(Http(400, Message("Missing member ID")), parsed.w)
    ELSE Written(SvcUpdateMember(parsed.w, parsed.value.memberData.id,
                     WithImage(sanitizeUpdateMemberRequest(parsed.value.memberData),
                               parsed.value.upload),
                     fault),
                 200, parsed.value.upload,
                 "Member updated successfully, but image was not uploaded: ")

UpdateParsed(parsed, memberId, fault) ==
    IF parsed.threw
    THEN Ret(Http(400, Message("Invalid request data")), parsed.w)
    ELSE IF ~Truthy(parsed.value.memberData, "id")
    THEN Ret(Http(400, Message("Missing member ID")), parsed.w)
    ELSE Written(SvcUpdateMember(parsed.w, memberId,
                     WithImage(sanitizeUpdateMemberRequest(parsed.value.memberData),
                               parsed.value.upload),
                     fault),
                 200, parsed.value.upload,
                 "Member updated successfully, but image was not uploaded: ")

updateMember(event, w, memberId) ==
    UpdateParsed(ParseAndUpload(event, w), memberId, event.fault)

ImageUpdated(uploadResult) ==
    IF uploadResult.value.success
    THEN Ret(Http(200, [image |-> uploadResult.value.imageUrl]), uploadResult.w)
    ELSE Ret(Http(500, [message |-> uploadResult.value.error]), uploadResult.w)

ImageOfMember(memberResponse, event, memberId) ==
    IF ~memberResponse.value.success THEN Converted(memberResponse)
    ELSE IF ~Truthy(memberResponse.value.data, "image")
    THEN Ret(Http(400, Message("Member has no existing image to update")),
             memberResponse.w)
    ELSE IF ~event.multipart
    THEN Ret(Http(500, Message("Failed to update image")), memberResponse.w)
    ELSE IF ~Has(event.form, "image")
    THEN Ret(Http(400, Message("No image file provided")), memberResponse.w)
    ELSE ImageUpdated(updateImageInS3(memberResponse.w, event.form.image,
                                      memberResponse.value.data.image, memberId,
                                      event.fault))

updateMemberImage(event, w, memberId) ==
    ImageOfMember(SvcGetMemberById(w, memberId, event.fault), event, memberId)

deleteMember(event, w, memberId) ==
    Converted(SvcDeleteMember(w, memberId, event.fault))

\* the authentication check that opens handlePost, handlePut and handleDelete
WhenAuthorized(authResult, w, routed) ==
    IF authResult.threw THEN authResult
    ELSE IF authResult.value.statusCode # 200
    THEN Ret(Http(authResult.value.statusCode,
                  [message |-> authResult.value.message]), w)
    ELSE routed

PostRoute(event, w, pathSegments) ==
    IF pathSegments = <<S("members"), S("member")>>
    THEN createMember(event, w)
    ELSE InvalidRoute(w)

handlePost(event, w) ==
    WhenAuthorized(checkMemberAuthorization(event, w), w,
                   PostRoute(event, w, getPathSegments(event.path)))

PutRoute(event, w, pathSegments) ==
    IF /\ Len(pathSegments) >= 3
       /\ pathSegments[1] \in {S("members"), S("members-v2")}
       /\ pathSegments[2] = S("member")
       /\ Len(pathSegments) = 3
    THEN updateMember(event, w, pathSegments[3])
    ELSE IF /\ Len(pathSegments) = 4
            /\ pathSegments[1] \in {S("members"), S("members-v2")}
            /\ pathSegments[2] = S("member")
            /\ pathSegments[4] = S("image")
    THEN updateMemberImage(event, w, pathSegments[3])
    ELSE InvalidRoute(w)

handlePut(event, w) ==
    WhenAuthorized(checkMemberAuthorization(event, w), w,
                   PutRoute(event, w, getPathSegments(event.path)))

DeleteRoute(event, w, pathSegments) ==
    IF /\ Len(pathSegments) = 3
       /\ pathSegments[1] = S("members")
       /\ pathSegments[2] = S("member")
    THEN deleteMember(event, w, pathSegments[3])
    ELSE InvalidRoute(w)

handleDelete(event, w) ==
    WhenAuthorized(checkMemberAuthorization(event, w), w,
                   DeleteRoute(event, w, getPathSegments(event.path)))

handleGetMember(event, w, pathSegments) ==
    IF Len(pathSegments) < 3
    THEN Ret(Http(400, Message("Member ID is required")), w)
    ELSE Converted(SvcGetMemberById(w, pathSegments[3], event.fault))

\* const sub = requestedSub || currentUserSub
CharactersOf(event, w, sub) ==
    IF ~Truthy(sub, "sub")
    THEN Ret(Http(400, Message("User ID required")), w)
    ELSE Converted(SvcGetMembersByOwner(w, sub.sub, event.fault))

handleGetCharacters(event, w) ==
    WhenAuthorized(checkCharacterAccess(event, w), w,
                   CharactersOf(event, w,
                                IF Truthy(event.pathParameters, "sub")
                                THEN event.pathParameters ELSE Claims(event)))

(***************************************************************************)
(* The lookup tables (classes, races, auras, groups).  No request writes   *)
(* them, so their contents are fixed; a table can hold more records than   *)
(* one Scan page.                                                          *)
(***************************************************************************)
Lookups ==
    [classes |-> <<[id |-> S("c1"), name |-> S("Fighter")],
                   [id |-> S("c2"), name |-> S("Mage")]>>,
     races   |-> <<[id |-> S("r1"), name |-> S("Elf")]>>,
     auras   |-> << >>,
     groups  |-> <<[id |-> S("g1"), name |-> S("Guild")],
                   [id |-> S("g2"), name |-> S("Order")],
                   [id |-> S("g3"), name |-> S("Clan")]>>]

\* getAll of a lookup repository: one ScanCommand, result.Items || []
LookupGetAll(w, lookup, fault) ==
    IF fault = "get"
    THEN Throw(StoreError, Log(w, [svc |-> "ddb", op |-> "Scan", key |-> S(lookup), ok |-> FALSE]))
    ELSE Ret(SubSeq(Lookups[lookup], 1,
                    IF PageSize < Len(Lookups[lookup]) THEN PageSize
                    ELSE Len(Lookups[lookup])),
             Log(w, [svc |-> "ddb", op |-> "Scan", key |-> S(lookup), ok |-> TRUE]))

\* getClasses, getRaces, getAuras, getGroups
SvcGetLookup(w, lookup, fault) ==
    Outcome(LookupGetAll(w, lookup, fault), "Failed to get " \o lookup \o ": ")

\* the session routes read another table and are left to Invalid route
GetRoute(event, w, pathSegments) ==
    IF Len(pathSegments) = 0 \/ pathSegments[1] \notin {S("members"), S("members-v2")}
    THEN InvalidRoute(w)
    ELSE IF Len(pathSegments) = 1
    THEN Converted(SvcGetAllMembers(w, event.fault))
    ELSE IF pathSegments[2] \in {S("classes"), S("races"), S("auras"), S("groups")}
    THEN Converted(SvcGetLookup(w, pathSegments[2][1], event.fault))
    ELSE IF pathSegments[2] = S("member") THEN handleGetMember(event, w, pathSegments)
    ELSE IF pathSegments[2] = S("characters") THEN handleGetCharacters(event, w)
    ELSE InvalidRoute(w)

handleGet(event, w) == GetRoute(event, w, getPathSegments(event.path))

\* a dispatch that puts the authorization check before OPTIONS and the default
DispatchChecked(event, w) ==
    CASE event.httpMethod = "POST" -> handlePost(event, w)
      [] event.httpMethod = "GET" -> handleGet(event, w)
      [] event.httpMethod = "PUT" -> handlePut(event, w)
      [] event.httpMethod = "DELETE" -> handleDelete(event, w)
      [] OTHER -> WhenAuthorized(checkMemberAuthorization(event, w), w,
                                 IF event.httpMethod = "OPTIONS"
                                 THEN Ret(Http(200, Message("OK")), w)
                                 ELSE Ret(Http(405, Message("Method not allowed")), w))

Dispatch(event, w) ==
    CASE event.httpMethod = "POST" -> handlePost(event, w)
      [] event.httpMethod = "GET" -> handleGet(event, w)
      [] event.httpMethod = "PUT" -> handlePut(event, w)
      [] event.httpMethod = "DELETE" -> handleDelete(event, w)
      [] event.httpMethod = "OPTIONS" -> Ret(Http(200, Message("OK")), w)
      [] OTHER -> Ret(Http(405, Message("Method not allowed")), w)

\* catch (error) { statusCode = 500; body = { message: error.message } }
Caught(result) ==
    IF result.threw
    THEN Ret(Http(500, [message |-> result.message]), result.w)
    ELSE result

\* the handler without its try/catch
handlerWithoutCatch(event, w) == Dispatch(event, w)

handler(event, w) == Caught(Dispatch(event, w))

(***************************************************************************)
(* Inputs                                                                  *)
(***************************************************************************)
Event(method, path, ctx, params, multipart, body, form, fault) ==
    [httpMethod |-> method, path |-> path, requestContext |-> ctx,
     pathParameters |-> params, multipart |-> multipart, body |-> body,
     form |-> form, fault |-> fault]

Json(value) == [ok |-> TRUE, value |-> value]
Malformed == [ok |-> FALSE]

RECURSIVE Path(_)
Path(segments) ==
    IF segments = << >> THEN << >>
    ELSE <<"/">> \o Head(segments) \o Path(Tail(segments))

Id1 == uuidv4(0)
Id2 == uuidv4(1)
Blank == S(" ")
UserA == S("A")
UserB == S("B")

MemberIds == {Id1, Id2, Blank}

StringGroups(v) == [t |-> "string", v |-> v]
ArrayGroups(v) == [t |-> "array", v |-> v]

GroupClaims ==
    {StringGroups(S("Player")), StringGroups(S("Administrator")),
     StringGroups(S("MemberEditors")), StringGroups(S("MemberEditor")),
     StringGroups(<<"Player", ",", "Deity">>), StringGroups(EmptyStr),
     ArrayGroups(<<S("Player")>>), ArrayGroups(<<S("Player"), S("Administrator")>>)}

Contexts ==
    {EmptyObj, [claims |-> [sub |-> UserA]],
     [claims |-> [groups |-> StringGroups(S("Administrator"))]]}
    \cup {[claims |-> [sub |-> UserA, groups |-> g]] : g \in GroupClaims}

EditorContext ==
    [claims |-> [sub |-> UserA, groups |-> StringGroups(S("Administrator"))]]

JpgFile == [filename |-> <<"portrait", ".", "jpg">>, size |-> 4 * maxSize,
            data |-> "d1", decodable |-> TRUE]
LargeMp4File == [filename |-> <<"clip", ".", "MP4">>, size |-> 2 * maxSize,
                 data |-> "d2", decodable |-> FALSE]
SmallMp4File == [filename |-> <<"clip", ".", "mp4">>, size |-> maxSize,
                 data |-> "d3", decodable |-> FALSE]

\* how the member data arrives, JSON or multipart with or without a file,
\* and what the environment does to the request
Arrival(multipart, form, fault) ==
    [multipart |-> multipart, form |-> form, fault |-> fault]

Forms ==
    {Arrival(FALSE, EmptyObj, "none"), Arrival(TRUE, EmptyObj, "none"),
     Arrival(TRUE, [image |-> JpgFile], "none"),
     Arrival(TRUE, [image |-> LargeMp4File], "none")}

CreateArrivals ==
    Forms \cup {Arrival(FALSE, EmptyObj, "write"),
                Arrival(TRUE, [image |-> SmallMp4File], "none"),
                Arrival(TRUE, [image |-> JpgFile], "write"),
                Arrival(TRUE, [image |-> JpgFile], "s3")}

UpdateArrivals ==
    Forms \cup {Arrival(FALSE, EmptyObj, "get"), Arrival(FALSE, EmptyObj, "write")}

ImageArrivals ==
    Forms \cup {Arrival(TRUE, [image |-> JpgFile], "get"),
                Arrival(TRUE, [image |-> JpgFile], "s3")}

CreateBodies ==
    {Json(EmptyObj), Json([name |-> Blank]),
     Json([name |-> S("A"), level |-> 5]),
     Json([name |-> <<" ", "B", " ">>, title |-> S("Sir"), owner |-> UserA,
           hp |-> 2, level |-> 0, weight |-> 3]),
     Json([name |-> S("A"), owner |-> UserB, hp |-> 0, born |-> 7, weight |-> 0,
           image |-> <<"gone", ".", "jpg">>]),
     Malformed}

UpdateBodies ==
    {Json([id |-> Id1]), Json([name |-> S("B")]),
     Json([id |-> Id1, name |-> <<"C", " ">>]), Json([id |-> Id1, name |-> Blank]),
     Json([id |-> Id2, title |-> S("Dr"), owner |-> UserB, hp |-> 0]),
     Malformed}

MutationPaths ==
    {Path(<<S("members"), S("member")>>), Path(<<S("members"), S("member"), Id1>>),
     Path(<<S("other"), S("member")>>)}

NoEvent == EmptyObj
NoResponse == EmptyObj
NoFlight == [before |-> EmptyObj, removed |-> {}, order |-> << >>, slots |-> << >>]
NoRun ==
    [phase |-> "idle", selected |-> << >>, i |-> 0, successCount |-> 0,
     errorCount |-> 0, syncs |-> 0, last |-> EmptyObj, prev |-> EmptyObj]

(***************************************************************************)
(* The state machine: one invocation of the handler per step               *)
(***************************************************************************)
Init ==
    /\ table = EmptyObj
    /\ s3 = EmptyObj
    /\ uuids = 0
    /\ served = 0
    /\ pc = "idle"
    /\ req = NoEvent
    /\ pre = NoEvent
    /\ resp = NoResponse
    /\ index = EmptyObj
    /\ run = NoRun
    /\ flight = NoFlight

\* what the gateway gets back, with the storage calls the invocation made
Returned(out) ==
    IF out.threw
    THEN [escaped |-> TRUE, message |-> out.message, calls |-> out.w.calls]
    ELSE [escaped |-> FALSE, statusCode |-> out.value.statusCode,
          body |-> out.value.body, calls |-> out.w.calls]

Handled(event, out) ==
    /\ out.w.uuids <= MaxUuids
    /\ table' = out.w.table
    /\ s3' = out.w.s3
    /\ uuids' = out.w.uuids
    /\ resp' = Returned(out)
    /\ req' = event
    /\ pre' = [table |-> table, s3 |-> s3, uuids |-> uuids]
    /\ served' = served + 1
    /\ pc' = "responded"
    /\ UNCHANGED <<index, run, flight>>

\* the function is free to take the next event
Idle == pc = "idle" /\ served < MaxRequests

Invoke(event) == Handled(event, handler(event, World(table, s3, uuids)))

\* POST, PUT or DELETE on any path by any caller
Mutate ==
    /\ Idle
    /\ \E method \in {"POST", "PUT", "DELETE"}, path \in MutationPaths, ctx \in Contexts :
           Invoke(Event(method, path, ctx, EmptyObj, FALSE,
                        Json([id |-> Id1, name |-> S("B")]), EmptyObj, "none"))

\* POST /members/member by an editor
PostMember ==
    /\ Idle
    /\ \E body \in CreateBodies, a \in CreateArrivals :
           Invoke(Event("POST", Path(<<S("members"), S("member")>>), EditorContext,
                        EmptyObj, a.multipart, body, a.form, a.fault))

\* PUT /members/member/{id} by an editor
PutMember ==
    /\ Idle
    /\ \E id \in MemberIds, body \in UpdateBodies, a \in UpdateArrivals :
           Invoke(Event("PUT", Path(<<S("members"), S("member"), id>>), EditorContext,
                        [id |-> id], a.multipart, body, a.form, a.fault))

\* PUT /members/member/{id}/image by an editor
PutMemberImage ==
    /\ Idle
    /\ \E id \in MemberIds, a \in ImageArrivals :
           Invoke(Event("PUT", Path(<<S("members"), S("member"), id, S("image")>>),
                        EditorContext, [id |-> id], a.multipart, Json(EmptyObj),
                        a.form, a.fault))

\* DELETE /members/member/{id} by an editor
DeleteMember ==
    /\ Idle
    /\ \E id \in MemberIds, fault \in {"none", "get"} :
           Invoke(Event("DELETE", Path(<<S("members"), S("member"), id>>),
                        EditorContext, [id |-> id], FALSE, Json(EmptyObj), EmptyObj,
                        fault))

\* GET /members and GET /members/member/{id}
GetMembers ==
    /\ Idle
    /\ \E path \in {Path(<<S("members")>>), Path(<<S("members"), S("member")>>)}
                   \cup {Path(<<S("members"), S("member"), id>>) : id \in MemberIds},
          fault \in {"none", "get"} :
           Invoke(Event("GET", path, EmptyObj, EmptyObj, FALSE, Json(EmptyObj),
                        EmptyObj, fault))

\* GET /members/characters, for the caller or for the subject in the parameters
GetCharacters ==
    /\ Idle
    /\ \E ctx \in Contexts,
          params \in {EmptyObj, [sub |-> EmptyStr], [sub |-> UserA], [sub |-> UserB]},
          fault \in {"none", "get"} :
           /\ fault = "get" => ctx = EditorContext
           /\ Invoke(Event("GET", Path(<<S("members"), S("characters")>>), ctx, params,
                           FALSE, Json(EmptyObj), EmptyObj, fault))

\* GET /members/classes, /races, /auras, /groups
GetLookups ==
    /\ Idle
    /\ \E lookup \in DOMAIN Lookups, fault \in {"none", "get"} :
           Invoke(Event("GET", Path(<<S("members"), S(lookup)>>), EmptyObj, EmptyObj,
                        FALSE, Json(EmptyObj), EmptyObj, fault))

\* OPTIONS, and a method the handler does not support
OtherMethod ==
    /\ Idle
    /\ \E method \in {"OPTIONS", "PATCH"}, path \in MutationPaths,
          ctx \in {EmptyObj, EditorContext,
                   [claims |-> [sub |-> UserA, groups |-> ArrayGroups(<<S("Player")>>)]]} :
           Invoke(Event(method, path, ctx, EmptyObj, FALSE, Json(EmptyObj), EmptyObj,
                        "none"))

\* the response goes back to the gateway; the function awaits the next event
Respond ==
    /\ pc = "responded"
    /\ pc' = "idle"
    /\ req' = NoEvent
    /\ pre' = NoEvent
    /\ resp' = NoResponse
    /\ UNCHANGED <<table, s3, uuids, served, index, run, flight>>

Next ==
    \/ Mutate
    \/ PostMember
    \/ PutMember
    \/ PutMemberImage
    \/ DeleteMember
    \/ GetMembers
    \/ GetCharacters
    \/ GetLookups
    \/ OtherMethod
    \/ Respond

Spec == Init /\ [][Next]_vars

(***************************************************************************)
(* The embedding pipeline (pineconeService, embeddingService).  A member   *)
(* is synced to the vector index by syncMemberToPinecone; a sync's fault   *)
(* says which of its external calls fails: the lookup scans, the embedding *)
(* model, deleteOne (with an error, or with a not-found answer when there  *)
(* is no vector), or upsert.                                               *)
(***************************************************************************)
\* `member_${member.id}`
vectorId(memberId) == <<"member_">> \o memberId

\* member.f, for a number or a flag
Flag(obj, f) == Has(obj, f) /\ obj[f] # 0

\* the parts of the document, one per truthy field; the text is their join
buildMemberEmbeddingText(member, classes) ==
    LET \* classes.find(c => c.id === id)?.name || id
        ResolveName(id) ==
            IF \E i \in 1..Len(classes) : classes[i].id = id
            THEN classes[CHOOSE i \in 1..Len(classes) : classes[i].id = id].name
            ELSE id
    IN
    (IF Truthy(member, "name") THEN <<<<"Name", member.name>>>> ELSE << >>)
    \o (IF Truthy(member, "title") THEN <<<<"Title", member.title>>>> ELSE << >>)
    \o (IF Has(member, "classes") /\ Len(member.classes) > 0
        THEN <<<<"Class", [i \in 1..Len(member.classes) |->
                              ResolveName(member.classes[i])]>>>>
        ELSE << >>)
    \o (IF Flag(member, "level") THEN <<<<"Level", member.level>>>> ELSE << >>)

\* the embedding model: a failure, or the vector of the text
generateEmbedding(p, text, fault) ==
    IF fault = "embed"
    THEN Throw(S("model unavailable"),
               Log(p, [svc |-> "bedrock", op |-> "InvokeModel", key |-> EmptyStr, ok |-> FALSE]))
    ELSE Ret([of |-> text],
             Log(p, [svc |-> "bedrock", op |-> "InvokeModel", key |-> EmptyStr, ok |-> TRUE]))

\* index.deleteOne(id)
DeleteOne(p, id, fault) ==
    IF fault = "delete"
    THEN Throw(S("service unavailable"),
               Log(p, [svc |-> "pinecone", op |-> "deleteOne", key |-> id, ok |-> FALSE]))
    ELSE IF fault = "absent" /\ id \notin DOMAIN p.index
    THEN Throw(<<"Vector ", "not found">>,
               Log(p, [svc |-> "pinecone", op |-> "deleteOne", key |-> id, ok |-> FALSE]))
    ELSE Ret(TRUE,
             Log([p EXCEPT !.index = [v \in DOMAIN p.index \ {id} |-> p.index[v]]],
                 [svc |-> "pinecone", op |-> "deleteOne", key |-> id, ok |-> TRUE]))

\* index.upsert([vector])
Upsert(p, vector, fault) ==
    IF fault = "upsert"
    THEN Throw(S("service unavailable"),
               Log(p, [svc |-> "pinecone", op |-> "upsert", key |-> vector.id, ok |-> FALSE]))
    ELSE Ret(TRUE,
             Log([p EXCEPT !.index = [v \in DOMAIN p.index \cup {vector.id} |->
                                         IF v = vector.id THEN vector ELSE p.index[v]]],
                 [svc |-> "pinecone", op |-> "upsert", key |-> vector.id, ok |-> TRUE]))

\* the deletion that lets every error of deleteOne through
deleteMemberStrict(p, memberId, fault) == DeleteOne(p, vectorId(memberId), fault)

deleteMemberFromPinecone(p, memberId, fault) ==
    LET deleted == DeleteOne(p, vectorId(memberId), fault) IN
    IF deleted.threw /\ ~Includes(deleted.message, "not found")
    THEN deleted
    ELSE Ret(TRUE, deleted.w)

\* Promise.all of the three repositories' getAll
LoadLookups(p, fault) ==
    LET storeFault == IF fault = "lookup" THEN "get" ELSE "none"
        classes == LookupGetAll(p, "classes", storeFault)
        races == LookupGetAll(classes.w, "races", storeFault)
        groups == LookupGetAll(races.w, "groups", storeFault)
    IN  IF classes.threw THEN Throw(classes.message, groups.w)
        ELSE Ret([classes |-> classes.value, races |-> races.value,
                  groups |-> groups.value], groups.w)

\* syncMemberToPinecone from the build of the document on
SyncDocument(member, tables, fault) ==
    IF tables.threw THEN tables
    ELSE LET embeddingText == buildMemberEmbeddingText(member, tables.value.classes) IN
         IF embeddingText = << >> THEN Ret(FALSE, tables.w)
         ELSE LET embedding == generateEmbedding(tables.w, embeddingText, fault) IN
              IF embedding.threw THEN embedding
              ELSE LET removed == deleteMemberFromPinecone(embedding.w, member.id, fault) IN
                   IF removed.threw THEN removed
                   ELSE Upsert(removed.w,
                               [id |-> vectorId(member.id),
                                values |-> embedding.value,
                                metadata |-> [type |-> "member", memberId |-> member.id,
                                              text |-> embeddingText]],
                               fault)

\* the sync that treats a deleted member like any other
syncWithoutDeletedCheck(member, lookupTables, p, fault) ==
    SyncDocument(member,
                 IF Has(lookupTables, "classes") THEN Ret(lookupTables, p)
                 ELSE LoadLookups(p, fault),
                 fault)

\* lookupTables is EmptyObj when the caller passes none
syncMemberToPinecone(member, lookupTables, p, fault) ==
    IF Flag(member, "deleted")
    THEN deleteMemberFromPinecone(p, member.id, fault)
    ELSE SyncDocument(member,
                      IF Has(lookupTables, "classes") THEN Ret(lookupTables, p)
                      ELSE LoadLookups(p, fault),
                      fault)

(***************************************************************************)
(* The batch driver (migrate-members-pinecone): it scans the member table, *)
(* selects the members to sync, and syncs them one after the other.        *)
(***************************************************************************)
\* members.filter(m => !m.deleted && m.name && m.name.trim().length > 0)
activeMembers(members) ==
    SelectSeq(members, LAMBDA m : /\ ~Flag(m, "deleted")
                                  /\ Truthy(m, "name")
                                  /\ Len(Trim(m.name)) > 0)

\* a sync is over; run.last keeps what it did: the member, the fault, the
\* outcome, whether the member had a vector, and the calls made
Synced(member, fault, out) ==
    /\ index' = out.w.index
    /\ run' = [run EXCEPT !.last = [member |-> member, fault |-> fault,
                                    threw |-> out.threw,
                                    had |-> vectorId(member.id) \in DOMAIN index,
                                    calls |-> out.w.calls],
                          !.prev = run.last,
                          !.syncs = @ + (IF run.phase = "idle" THEN 1 ELSE 0),
                          !.i = @ + (IF run.phase = "running" THEN 1 ELSE 0),
                          !.successCount =
                              @ + (IF run.phase = "running" /\ ~out.threw THEN 1 ELSE 0),
                          !.errorCount =
                              @ + (IF run.phase = "running" /\ out.threw THEN 1 ELSE 0)]
    /\ UNCHANGED <<table, s3, uuids, served, pc, req, pre, resp, flight>>

SyncFaults == {"none", "lookup", "embed", "delete", "absent", "upsert"}

\* a call of syncMemberToPinecone for a member of the table, without lookups
SyncMember ==
    /\ run.phase = "idle"
    /\ run.syncs < MaxSyncs
    /\ \E id \in DOMAIN table, fault \in SyncFaults :
           Synced(table[id], fault,
                  syncMemberToPinecone(table[id], EmptyObj, [index |-> index, calls |-> << >>], fault))

\* migrate up to the loop: the scan of the members and the selection
MigrateStart ==
    /\ run = NoRun
    /\ \E fault \in {"none", "get"}, dryRun \in BOOLEAN :
           LET \* getAllMembers: pages followed until LastEvaluatedKey is absent
               members == ScanPages(DdbScanPage(World(table, s3, uuids), 0, EmptyObj,
                                                {}, fault),
                                    << >>, EmptyObj, {}, fault)
           IN
           run' = [run EXCEPT
                      !.phase = IF members.threw THEN "failed"
                                ELSE IF dryRun THEN "dry" ELSE "running",
                      !.selected = IF members.threw THEN << >>
                                   ELSE activeMembers(members.value)]
    /\ UNCHANGED <<table, s3, uuids, served, pc, req, pre, resp, index, flight>>

\* a loop whose catch block ends the run
MigrateStepAborting ==
    /\ run.phase = "running"
    /\ run.i < Len(run.selected)
    /\ \E fault \in SyncFaults \ {"lookup"} :
           LET out == syncMemberToPinecone(run.selected[run.i + 1], Lookups,
                                           [index |-> index, calls |-> << >>], fault)
           IN  /\ index' = out.w.index
               /\ run' = [run EXCEPT
                             !.last = [member |-> run.selected[run.i + 1],
                                       fault |-> fault, threw |-> out.threw,
                                       had |-> vectorId(run.selected[run.i + 1].id)
                                                   \in DOMAIN index,
                                       calls |-> out.w.calls],
                             !.prev = run.last,
                             !.i = @ + 1,
                             !.successCount = @ + (IF out.threw THEN 0 ELSE 1),
                             !.errorCount = @ + (IF out.threw THEN 1 ELSE 0),
                             !.phase = IF out.threw THEN "failed" ELSE @]
               /\ UNCHANGED <<table, s3, uuids, served, pc, req, pre, resp, flight>>

\* one pass of the loop: the sync of activeMembers[i], counted
MigrateStep ==
    /\ run.phase = "running"
    /\ run.i < Len(run.selected)
    /\ \E fault \in SyncFaults \ {"lookup"} :
           Synced(run.selected[run.i + 1], fault,
                  syncMemberToPinecone(run.selected[run.i + 1], Lookups,
                                       [index |-> index, calls |-> << >>], fault))

\* the loop is over: the counts are reported
MigrateDone ==
    /\ run.phase = "running"
    /\ run.i = Len(run.selected)
    /\ run' = [run EXCEPT !.phase = "done"]
    /\ UNCHANGED <<table, s3, uuids, served, pc, req, pre, resp, index, flight>>

\* members as the table can hold them: active, flagged deleted, without a
\* name, without any field the document is built from
SyncMembers ==
    {[id |-> uuidv4(0), name |-> S("A"), level |-> 5, classes |-> <<S("c2")>>],
     [id |-> uuidv4(1), name |-> S("B"), level |-> 1, deleted |-> 1],
     [id |-> uuidv4(2), name |-> S("C"), deleted |-> 0],
     [id |-> uuidv4(3), level |-> 0, deleted |-> 0]}

SyncInit ==
    /\ table \in {[id \in {m.id : m \in members} |-> CHOOSE m \in members : m.id = id] :
                     members \in SUBSET SyncMembers}
    /\ index \in {[v \in {vectorId(id) : id \in ids} |->
                      [id |-> v, values |-> [of |-> << >>],
                       metadata |-> [type |-> "member", memberId |-> Tail(v),
                                     text |-> << >>]]] :
                     ids \in SUBSET DOMAIN table}
    /\ s3 = EmptyObj
    /\ uuids = MaxUuids
    /\ served = 0
    /\ pc = "idle"
    /\ req = NoEvent
    /\ pre = NoEvent
    /\ resp = NoResponse
    /\ run = NoRun
    /\ flight = NoFlight

SyncNext ==
    \/ SyncMember
    \/ MigrateStart
    \/ MigrateStep
    \/ MigrateDone

SyncSpec == SyncInit /\ [][SyncNext]_vars

\* the batch script run as the program it is.  Every await of the loop
\* resolves: a sync returns or throws, the timer of the delay fires; so a
\* pass that can be taken is taken, and so is the exit of the loop.
MigrateNext ==
    \/ MigrateStart
    \/ MigrateStep
    \/ MigrateDone

MigrateSpec ==
    SyncInit /\ [][MigrateNext]_vars /\ WF_vars(MigrateStep) /\ WF_vars(MigrateDone)

(***************************************************************************)
(* Update requests served at the same time.  Each invocation runs on its   *)
(* own; what they share is the member table, which an updateMember call    *)
(* reaches twice: the existence check (getById) and, after the await, the  *)
(* write (UpdateCommand).  The steps of the calls interleave freely.       *)
(***************************************************************************)
Requests == {1, 2}

\* memberRepository.getById(id) of request r returns; the call holds the result
UpdateChecks ==
    \E r \in Requests :
        /\ flight.slots[r].pc = "check"
        /\ ~IsBlank(flight.slots[r].id)
        /\ flight' = [flight EXCEPT
                         !.slots[r].pc = "write",
                         !.slots[r].held =
                             RepoGetById(World(table, s3, uuids), flight.slots[r].id,
                                         "none")]
        /\ UNCHANGED <<table, s3, uuids, served, pc, req, pre, resp, index, run>>

\* the rest of updateMember for request r: what it held from the existence
\* check decides, the write goes to the table as it is now
UpdateCompletes ==
    \E r \in Requests, fault \in {"none", "write"} :
        /\ flight.slots[r].pc = "write"
        /\ LET out == UpdateExisting([flight.slots[r].held EXCEPT
                                         !.w = World(table, s3, uuids)],
                                     flight.slots[r].id, flight.slots[r].updates,
                                     fault)
           IN  /\ table' = out.w.table
               /\ flight' = [flight EXCEPT
                                !.slots[r].pc = "done",
                                !.slots[r].result = out.value,
                                !.slots[r].fault = fault,
                                !.order = IF out.value.success THEN Append(@, r) ELSE @]
        /\ UNCHANGED <<s3, uuids, served, pc, req, pre, resp, index, run>>

\* a deletion of a record completes: memberRepository.delete(id) as
\* deleteMember calls it
RecordDeleted ==
    \E id \in DOMAIN table :
        /\ flight.removed = {}
        /\ \E r \in Requests : flight.slots[r].pc # "done"
        /\ table' = [k \in DOMAIN table \ {id} |-> table[k]]
        /\ flight' = [flight EXCEPT !.removed = {id}]
        /\ UNCHANGED <<s3, uuids, served, pc, req, pre, resp, index, run>>

\* the updates of a request after sanitizeUpdateMemberRequest
RaceUpdates ==
    {[name |-> S("B")], [name |-> S("C"), title |-> S("Dr")],
     [title |-> S("Lord"), hp |-> 3], [name |-> Blank], EmptyObj}

RaceTable ==
    (uuidv4(0) :> [id |-> uuidv4(0), name |-> S("A"), title |-> S("Sir"),
                   owner |-> UserA, weight |-> 0, hp |-> 1, level |-> 5,
                   groups |-> << >>])
    @@ (uuidv4(1) :> [id |-> uuidv4(1), name |-> S("Z"), title |-> EmptyStr,
                      owner |-> UserB, weight |-> 0, hp |-> 1, level |-> 1,
                      groups |-> << >>])

RaceInit ==
    /\ table = RaceTable
    /\ flight \in {[before |-> RaceTable, removed |-> {}, order |-> << >>,
                    slots |-> slots] :
                      slots \in [Requests ->
                                   {[id |-> id, updates |-> updates, pc |-> "check",
                                     held |-> EmptyObj, result |-> EmptyObj,
                                     fault |-> "none"] :
                                        id \in {uuidv4(0), uuidv4(2)},
                                        updates \in RaceUpdates}]}
    /\ s3 = EmptyObj
    /\ uuids = 2
    /\ served = 0
    /\ pc = "idle"
    /\ req = NoEvent
    /\ pre = NoEvent
    /\ resp = NoResponse
    /\ index = EmptyObj
    /\ run = NoRun

RaceNext ==
    \/ UpdateChecks
    \/ UpdateCompletes
    \/ RecordDeleted

RaceSpec == RaceInit /\ [][RaceNext]_vars

(***************************************************************************)
(* Vocabulary of the properties.  A property is read in the state where    *)
(* the handler has responded: req is the event, pre the stores before the  *)
(* invocation, table and s3 the stores after it, resp the response.        *)
(***************************************************************************)
Responded == pc = "responded"
Segments == getPathSegments(req.path)
PreWorld == World(pre.table, pre.s3, pre.uuids)
StatusIs(n) == ~resp.escaped /\ resp.statusCode = n
FailedWith(code, status) ==
    StatusIs(status) /\ Has(resp.body, "code") /\ resp.body.code = code
Range(seq) == {seq[i] : i \in 1..Len(seq)}

\* the roles a caller's claims name, in either representation
Roles(event) ==
    IF ~Has(Claims(event), "groups") THEN {}
    ELSE IF Claims(event).groups.t = "string"
    THEN Range(Split(Claims(event).groups.v, ","))
    ELSE Range(Claims(event).groups.v)

\* the authorization check of the mutating routes let the request through
Granted ==
    /\ ~checkMemberAuthorization(req, PreWorld).threw
    /\ checkMemberAuthorization(req, PreWorld).value.statusCode = 200

CreateRoute ==
    req.httpMethod = "POST" /\ Segments = <<S("members"), S("member")>>
MemberRoute(method) ==
    /\ req.httpMethod = method
    /\ Len(Segments) = 3
    /\ Segments[1] = S("members")
    /\ Segments[2] = S("member")
CharactersRoute ==
    req.httpMethod = "GET" /\ Segments = <<S("members"), S("characters")>>

(***************************************************************************)
(* C1.  Every POST, PUT or DELETE, on any path: a caller whose role claims *)
(* contain none of MemberEditors, Deity, Administrator gets 403 and        *)
(* neither the member table nor the object store is mutated; a caller      *)
(* whose role claims contain one of them does not get 403.                 *)
(***************************************************************************)
MutationAuthorization ==
    (Responded /\ req.httpMethod \in {"POST", "PUT", "DELETE"}) =>
        IF Roles(req) \cap Range(requiredGroups) = {}
        THEN StatusIs(403) /\ table = pre.table /\ s3 = pre.s3
        ELSE ~StatusIs(403)

(***************************************************************************)
(* C2.  The handler returns a response for every request: no exception     *)
(* escapes it, a failure that no inner layer handled is returned as status *)
(* 500 whose body carries the failure's message, and what the route        *)
(* handlers return goes out as they returned it.                           *)
(***************************************************************************)
HandlerAlwaysResponds ==
    Responded =>
        /\ ~resp.escaped
        /\ LET routed == Dispatch(req, PreWorld)
           IN  IF routed.threw
               THEN resp.statusCode = 500 /\ resp.body = [message |-> routed.message]
               ELSE /\ resp.statusCode = routed.value.statusCode
                    /\ resp.body = routed.value.body

\* a programming error under the dispatcher came back as a 500 with its message
UnhandledFailureSurfaced ==
    /\ Responded
    /\ Dispatch(req, PreWorld).threw
    /\ StatusIs(500)
    /\ resp.body = [message |-> S("split is not a function")]

(***************************************************************************)
(* C3.  A successful update of a member changes only the fields present in *)
(* the update input: every stored field of that member that is absent from *)
(* the input has the same value after the update as before it, and no      *)
(* other member's record changes.  The input is the member data of the     *)
(* body and, for a multipart request, the image file of the form.          *)
(***************************************************************************)
InputFields ==
    DOMAIN req.body.value \cup (IF Has(req.form, "image") THEN {"image"} ELSE {})

UpdateChangesOnlyInputFields ==
    (Responded /\ MemberRoute("PUT") /\ StatusIs(200)) =>
        /\ DOMAIN table = DOMAIN pre.table
        /\ Segments[3] \in DOMAIN pre.table
        /\ \A f \in DOMAIN pre.table[Segments[3]] \ InputFields :
               /\ Has(table[Segments[3]], f)
               /\ table[Segments[3]][f] = pre.table[Segments[3]][f]
        /\ \A k \in DOMAIN pre.table \ {Segments[3]} : table[k] = pre.table[k]

\* a member titled "Sir" got a new name from an update that names no title
TitleKeptWhenNameUpdated ==
    /\ Responded /\ MemberRoute("PUT") /\ StatusIs(200)
    /\ "title" \notin InputFields
    /\ pre.table[Segments[3]].title = S("Sir")
    /\ table[Segments[3]].title = S("Sir")
    /\ table[Segments[3]].name # pre.table[Segments[3]].name
    /\ Cardinality(DOMAIN pre.table) > 1

(***************************************************************************)
(* C4.  In every reachable state of the member table each record's id is   *)
(* the key it is stored under and no two records share an id; a create     *)
(* stores its record under an id no record had, and across creates and     *)
(* updates every record keeps the id it was created with.                  *)
(***************************************************************************)
IdIsStableKey ==
    /\ \A k \in DOMAIN table : Has(table[k], "id") /\ table[k].id = k
    /\ \A j, k \in DOMAIN table : table[j].id = table[k].id => j = k
    /\ (Responded /\ req.httpMethod \in {"POST", "PUT"}) =>
           /\ \A k \in DOMAIN pre.table :
                  k \in DOMAIN table /\ table[k].id = pre.table[k].id
           /\ \A k \in DOMAIN table \ DOMAIN pre.table :
                  StatusIs(201) /\ resp.body.id = k
           /\ StatusIs(201) =>
                  /\ resp.body.id \notin DOMAIN pre.table
                  /\ \A k \in DOMAIN pre.table : table[k] = pre.table[k]

\* a second member was created, and an earlier member was updated
SecondCreateAndUpdate ==
    /\ Responded
    /\ \/ /\ CreateRoute /\ StatusIs(201)
          /\ Cardinality(DOMAIN pre.table) >= 1
          /\ Cardinality(DOMAIN table) = Cardinality(DOMAIN pre.table) + 1
       \/ /\ MemberRoute("PUT") /\ StatusIs(200)
          /\ Cardinality(DOMAIN table) >= 2
          /\ table[Segments[3]] # pre.table[Segments[3]]

(***************************************************************************)
(* C5.  A create request whose name is empty or whitespace-only after      *)
(* trimming fails with VALIDATION_ERROR (status 400), and the member table *)
(* is the same after the request as before it.                             *)
(***************************************************************************)
BlankName ==
    /\ req.body.ok
    /\ ~Has(req.body.value, "name") \/ Len(Trim(req.body.value.name)) = 0

BlankNameCreateRejected ==
    (Responded /\ CreateRoute /\ Granted /\ BlankName) =>
        /\ FailedWith("VALIDATION_ERROR", 400)
        /\ table = pre.table

\* a whitespace-only name was turned down while the table held a member
WhitespaceNameTurnedDown ==
    /\ Responded /\ CreateRoute /\ Granted
    /\ req.body.ok /\ Has(req.body.value, "name") /\ req.body.value.name = Blank
    /\ FailedWith("VALIDATION_ERROR", 400)
    /\ table = pre.table /\ DOMAIN table # {}

(***************************************************************************)
(* C6.  A create the authorization check let through, with a name that is  *)
(* not blank, in the words of the specification: 201 with a body that      *)
(* carries a newly assigned non-empty id, the given name and level, and    *)
(* hp = 1 when hp was omitted; every later getById of that id returns a    *)
(* record with that same id.  The store is taken not to fail.              *)
(***************************************************************************)
Given == req.body.value
NamedCreate ==
    /\ Responded /\ CreateRoute /\ Granted
    /\ req.body.ok /\ Has(Given, "name") /\ Len(Trim(Given.name)) > 0
NewId ==
    /\ Has(resp.body, "id") /\ resp.body.id # EmptyStr
    /\ resp.body.id \notin DOMAIN pre.table
    /\ resp.body.id \in DOMAIN table
    /\ \A f \in DOMAIN table[resp.body.id] :
           Has(resp.body, f) /\ resp.body[f] = table[resp.body.id][f]
\* getById of a stored id returns the record with that id, and the requests
\* that are not deletions keep every record
IdReadBack ==
    /\ \A k \in DOMAIN table :
           LET read == SvcGetMemberById(World(table, s3, uuids), k, "none").value
           IN  read.success /\ read.data.id = k
    /\ (Responded /\ req.httpMethod # "DELETE") =>
           \A k \in DOMAIN pre.table : k \in DOMAIN table

CreateReturnsGivenNameAndLevel ==
    /\ (NamedCreate /\ req.fault = "none") =>
           /\ StatusIs(201) /\ NewId
           /\ resp.body.name = Given.name
           /\ Has(Given, "level") => resp.body.level = Given.level
           /\ ~Has(Given, "hp") => resp.body.hp = 1
    /\ IdReadBack

(***************************************************************************)
(* C6, as the code has it.  The body of the 201 carries the name trimmed,  *)
(* the level when one other than 0 was given and 1 otherwise, and hp       *)
(* likewise; a failure of the table write is answered with 500             *)
(* INTERNAL_ERROR and leaves the table as it was, and a failed image       *)
(* upload does not stop the create.  The id is new, non-empty, the key of  *)
(* the stored record, and what getById returns afterwards.                 *)
(***************************************************************************)
NonZeroOr(data, f, dflt) == IF Has(data, f) /\ data[f] # 0 THEN data[f] ELSE dflt

CreateReturnsSanitizedMember ==
    /\ NamedCreate =>
           IF req.fault = "write"
           THEN FailedWith("INTERNAL_ERROR", 500) /\ table = pre.table
           ELSE /\ StatusIs(201) /\ NewId
                /\ resp.body.name = Trim(Given.name)
                /\ resp.body.level = NonZeroOr(Given, "level", 1)
                /\ resp.body.hp = NonZeroOr(Given, "hp", 1)
    /\ IdReadBack

\* a member was created from a padded name and a level of 0, after another
CreatedFromPaddedName ==
    /\ NamedCreate /\ StatusIs(201) /\ NewId
    /\ Given.name # Trim(Given.name)
    /\ Has(Given, "level") /\ Given.level = 0 /\ resp.body.level = 1
    /\ DOMAIN pre.table # {}

(***************************************************************************)
(* C7.  update and delete on an id for which no record exists return       *)
(* MEMBER_NOT_FOUND (status 404) and perform no storage mutation: the      *)
(* existence check is the last storage call of the request, so no write    *)
(* follows it, and the member table is unchanged; so is the object store,  *)
(* which the two service operations never call (the image file of a        *)
(* multipart PUT is uploaded by the route handler before the operation     *)
(* starts).                                                                *)
(***************************************************************************)
OnMissingId(method) ==
    /\ Responded /\ MemberRoute(method) /\ Granted
    /\ ~IsBlank(Segments[3]) /\ Segments[3] \notin DOMAIN pre.table
    /\ req.fault # "get"
    /\ method = "PUT" => req.body.ok /\ Truthy(req.body.value, "id")

EmptyUpdate ==
    /\ Responded /\ MemberRoute("PUT") /\ Granted
    /\ req.body.ok /\ Truthy(req.body.value, "id")
    /\ DOMAIN req.body.value \cap MemberFields = {}
    /\ ~Has(req.form, "image")
    /\ Segments[3] \in DOMAIN pre.table
    /\ req.fault # "get"

EmptyUpdateRejected ==
    EmptyUpdate =>
        /\ FailedWith("INTERNAL_ERROR", 500)
        /\ resp.body.message =
               S("Failed to update member: ") \o S("No valid updates provided")
        /\ table = pre.table

\* an update naming no field was rejected for a member the table holds
EmptyUpdateOfStoredMember ==
    EmptyUpdate /\ StatusIs(500) /\ table[Segments[3]] = pre.table[Segments[3]]

(***************************************************************************)
(* C9.  delete on an existing member returns success and afterwards no     *)
(* record exists for that id, also when the member has an image whose      *)
(* deletion fails.                                                         *)
(***************************************************************************)
DeleteOfExistingSucceeds ==
    (/\ Responded /\ MemberRoute("DELETE") /\ Granted
     /\ Segments[3] \in DOMAIN pre.table /\ req.fault = "none") =>
        StatusIs(200) /\ Segments[3] \notin DOMAIN table

(***************************************************************************)
(* C10.  GET /members/characters: a caller who requests no subject or      *)
(* their own subject is never refused, and gets exactly the members owned  *)
(* by their own subject, each once; a caller who requests another subject  *)
(* is let through only if their role claims contain one of Administrator,  *)
(* Deity, MemberEditor, and otherwise gets 403 and no listing.             *)
(***************************************************************************)
OwnSubject ==
    \/ ~Truthy(req.pathParameters, "sub")
    \/ Has(Claims(req), "sub") /\ req.pathParameters.sub = Claims(req).sub
OwnedBy(sub) == {pre.table[k] : k \in {j \in DOMAIN pre.table : pre.table[j].owner = sub}}

CharacterListAccess ==
    (Responded /\ CharactersRoute) =>
        IF OwnSubject
        THEN /\ ~StatusIs(403)
             /\ (Truthy(Claims(req), "sub") /\ req.fault = "none") =>
                    /\ StatusIs(200)
                    /\ Range(resp.body) = OwnedBy(Claims(req).sub)
                    /\ Len(resp.body) = Cardinality(OwnedBy(Claims(req).sub))
        ELSE Roles(req) \cap Range(characterGroups) = {} =>
                 StatusIs(403) /\ resp.body = [message |-> S("Forbidden")]

\* a caller without the roles asked for the members of another owner who has
\* some, and was refused
OtherSubjectRefused ==
    /\ Responded /\ CharactersRoute /\ ~OwnSubject
    /\ Has(Claims(req), "groups")
    /\ Roles(req) \cap Range(characterGroups) = {}
    /\ OwnedBy(req.pathParameters.sub) # {}
    /\ StatusIs(403)

(***************************************************************************)
(* C11.  Under both authorization policies the decision for role claims    *)
(* given as a sequence of strings equals the decision for the same roles   *)
(* given as a single comma-separated string: the request answered with the *)
(* roles in one representation gets the same status code with the roles in *)
(* the other.                                                              *)
(***************************************************************************)
RECURSIVE JoinComma(_)
JoinComma(roles) ==
    IF roles = << >> THEN EmptyStr
    ELSE IF Len(roles) = 1 THEN roles[1]
    ELSE roles[1] \o <<",">> \o JoinComma(Tail(roles))

OtherForm(groups) ==
    IF groups.t = "string"
    THEN ArrayGroups(Split(groups.v, ","))
    ELSE StringGroups(JoinComma(groups.v))

\* the request just handled, with its roles in the other representation
Recast == [req EXCEPT !.requestContext.claims.groups = OtherForm(@)]

AuthorizedRoute == req.httpMethod \in {"POST", "PUT", "DELETE"} \/ CharactersRoute

RepresentationIndependent ==
    (Responded /\ AuthorizedRoute /\ Has(Claims(req), "groups")) =>
        /\ ~resp.escaped
        /\ handler(Recast, PreWorld).value.statusCode = resp.statusCode

(***************************************************************************)
(* C12.  A request that carries no claims is denied by the authorization   *)
(* check under both policies: neither the mutation check nor the           *)
(* character-list check returns allow when the claim set is absent,        *)
(* whatever subject is or is not requested.                                *)
(***************************************************************************)
NoClaimsDenied ==
    (Responded /\ AuthorizedRoute /\ ~Has(req.requestContext, "claims")) =>
        /\ CharactersRoute => checkCharacterAccess(req, PreWorld).value.statusCode = 403
        /\ ~CharactersRoute =>
               checkMemberAuthorization(req, PreWorld).value.statusCode = 403

(***************************************************************************)
(* C13.  getMembersByOwner(o) with a non-empty o returns exactly the       *)
(* members whose owner is o, each once, whatever number of pages the store *)
(* splits the scan into: none is missed, none is duplicated, none with     *)
(* another owner is returned.  The call is made on every table the         *)
(* requests leave behind, at the moment the next request can arrive.       *)
(***************************************************************************)
Owners == {UserA, UserB}
Owned(o) == {id \in DOMAIN table : Has(table[id], "owner") /\ table[id].owner = o}
ListedFor(o) == SvcGetMembersByOwner(World(table, s3, uuids), o, "none")

GetByOwnerExact ==
    \A o \in Owners :
        LET listed == ListedFor(o) IN
        pc = "idle" =>
        /\ ~listed.threw
        /\ listed.value.success
        /\ Len(listed.value.data) = Cardinality(Owned(o))
        /\ Range(listed.value.data) = {table[id] : id \in Owned(o)}

\* three members on three pages, two of them owned by the owner asked for
OwnerListedAcrossPages ==
    /\ pc = "idle"
    /\ Cardinality(DOMAIN table) = 3
    /\ Cardinality(Owned(UserA)) = 2
    /\ Cardinality(Owned(UserB)) = 1
    /\ Len(ListedFor(UserA).w.calls) = 3
    /\ Len(ListedFor(UserA).value.data) = 2

(***************************************************************************)
(* C14.  getClasses, getRaces, getAuras and getGroups return every record  *)
(* of their lookup table, also when the store hands the table out in more  *)
(* than one page: a lookup route answered without a store failure answers  *)
(* 200 with all the records of its table.                                  *)
(***************************************************************************)
LookupRoute ==
    /\ req.httpMethod = "GET"
    /\ Len(Segments) = 2
    /\ Segments[1] = S("members")
    /\ Segments[2] \in {S(lookup) : lookup \in DOMAIN Lookups}

LookupsListedInFull ==
    (Responded /\ LookupRoute /\ req.fault = "none") =>
        /\ StatusIs(200)
        /\ resp.body = Lookups[Segments[2][1]]

(***************************************************************************)
(* C15.  A sync of a member whose deleted flag is set never calls the      *)
(* embedding model and never upserts a vector, whether it returns or       *)
(* fails; when it returns, the index holds no vector member_<id> for that  *)
(* member, also when one existed before.                                   *)
(***************************************************************************)
LastSync == run.last
SyncedOnce == Has(run.last, "member")
OpsOf(attempt) == {attempt.calls[i].op : i \in 1..Len(attempt.calls)}

DeletedMemberNeverEmbedded ==
    (SyncedOnce /\ Flag(LastSync.member, "deleted")) =>
        /\ OpsOf(LastSync) \subseteq {"deleteOne"}
        /\ ~LastSync.threw => vectorId(LastSync.member.id) \notin DOMAIN index

\* the sync of a deleted member that had a vector has returned
DeletedMemberVectorRemoved ==
    /\ SyncedOnce
    /\ Flag(LastSync.member, "deleted")
    /\ LastSync.had
    /\ ~LastSync.threw
    /\ OpsOf(LastSync) = {"deleteOne"}

(***************************************************************************)
(* C16.  After a successful sync of an active member the index holds       *)
(* exactly one vector for that member, the one with id member_<id>.        *)
(* As stated, for every active member:                                     *)
(***************************************************************************)
Active(member) == ~Flag(member, "deleted")
VectorsOf(memberId) == {v \in DOMAIN index : index[v].metadata.memberId = memberId}
HasDocument(member) == buildMemberEmbeddingText(member, Lookups.classes) # << >>

OneVectorAfterSync ==
    (SyncedOnce /\ Active(LastSync.member) /\ ~LastSync.threw) =>
        VectorsOf(LastSync.member.id) = {vectorId(LastSync.member.id)}

(***************************************************************************)
(* C16, amended.  For an active member whose composed document is not      *)
(* empty: a sync in which no call fails, or in which deleteOne answers not *)
(* found because there is no prior vector, returns; a sync that returns    *)
(* has called deleteOne for member_<id> and then upsert, and leaves        *)
(* exactly one vector for the member, with id member_<id> and the          *)
(* embedding of the member's document.  For an active member whose         *)
(* document is empty the sync returns without any call to the model or the *)
(* index.                                                                  *)
(***************************************************************************)
DeleteThenUpsert(attempt) ==
    \E i, j \in 1..Len(attempt.calls) :
        /\ i < j
        /\ attempt.calls[i].op = "deleteOne"
        /\ attempt.calls[i].key = vectorId(attempt.member.id)
        /\ attempt.calls[j].op = "upsert"
        /\ j = Len(attempt.calls)

OneVectorAfterSyncOfDocument ==
    (SyncedOnce /\ Active(LastSync.member)) =>
        IF HasDocument(LastSync.member)
        THEN /\ LastSync.fault \in {"none", "absent"} => ~LastSync.threw
             /\ ~LastSync.threw =>
                    /\ DeleteThenUpsert(LastSync)
                    /\ VectorsOf(LastSync.member.id) = {vectorId(LastSync.member.id)}
                    /\ index[vectorId(LastSync.member.id)].metadata.text # << >>
        ELSE OpsOf(LastSync) \cap {"InvokeModel", "deleteOne", "upsert"} = {}

\* two syncs in a row of the same active member: the first found no vector and
\* deleteOne answered not found, the second replaced the first one's vector
SyncedTwiceInARow ==
    /\ SyncedOnce
    /\ Has(run.prev, "member")
    /\ run.prev.member = LastSync.member
    /\ Active(LastSync.member)
    /\ HasDocument(LastSync.member)
    /\ ~run.prev.had /\ run.prev.fault = "absent" /\ ~run.prev.threw
    /\ LastSync.had /\ ~LastSync.threw
    /\ VectorsOf(LastSync.member.id) = {vectorId(LastSync.member.id)}

(***************************************************************************)
(* C17.  When a batch run over the members has completed, the index holds  *)
(* no vector for any member whose deleted flag is set, also when such a    *)
(* vector existed before the run.                                          *)
(***************************************************************************)
BatchRemovesDeletedMembers ==
    run.phase = "done" =>
        \A id \in DOMAIN table :
            Flag(table[id], "deleted") => vectorId(id) \notin DOMAIN index

(***************************************************************************)
(* C18.  A member's image key is the same after every later image upload:  *)
(* an upload through PUT /members/member/{id} (multipart) or through       *)
(* PUT /members/member/{id}/image, answered 200 for a member that already  *)
(* has an image, leaves the member's image field as it was and creates no  *)
(* second object in the object store.                                      *)
(***************************************************************************)
ImageUploadToMember ==
    /\ req.httpMethod = "PUT"
    /\ Len(Segments) \in {3, 4}
    /\ Segments[1] = S("members")
    /\ Segments[2] = S("member")
    /\ Len(Segments) = 4 => Segments[4] = S("image")
    /\ req.multipart
    /\ Has(req.form, "image")
    /\ Segments[3] \in DOMAIN pre.table
    /\ Truthy(pre.table[Segments[3]], "image")

ImageKeyStable ==
    (Responded /\ ImageUploadToMember /\ StatusIs(200)) =>
        /\ table[Segments[3]].image = pre.table[Segments[3]].image
        /\ DOMAIN s3 = DOMAIN pre.s3

(***************************************************************************)
(* C19.  An image update writes to the existing key only after a           *)
(* successful check that the object exists; when the object does not       *)
(* exist it writes nothing and fails, and the failure differs in status or *)
(* in error class from the one the same request gets when the object       *)
(* store fails.                                                            *)
(***************************************************************************)
ImageUpdateOfMember ==
    /\ ImageUploadToMember
    /\ Len(Segments) = 4

PutsAfterHead ==
    \A j \in 1..Len(resp.calls) :
        (resp.calls[j].svc = "s3" /\ resp.calls[j].op = "Put") =>
            \E i \in 1..(j - 1) :
                /\ resp.calls[i] = [svc |-> "s3", op |-> "Head", ok |-> TRUE,
                                    key |-> pre.table[Segments[3]].image]
                /\ resp.calls[j].key = resp.calls[i].key

\* the same request when the object store fails
StorageFailure == handler([req EXCEPT !.fault = "s3"], PreWorld).value

MissingObjectFailsDistinctly ==
    (Responded /\ ImageUpdateOfMember /\ req.fault = "none") =>
        /\ PutsAfterHead
        /\ pre.table[Segments[3]].image \notin DOMAIN pre.s3 =>
               /\ s3 = pre.s3
               /\ ~StatusIs(200)
               /\ \/ resp.statusCode # StorageFailure.statusCode
                  \/ DOMAIN resp.body # DOMAIN StorageFailure.body
                  \/ /\ Has(resp.body, "code")
                     /\ resp.body.code # StorageFailure.body.code

(***************************************************************************)
(* C20.  A create or update whose JSON body is malformed is answered by    *)
(* the router with status 500 and the parse failure's message in the body. *)
(* As stated, for a request the authorization check let through:           *)
(***************************************************************************)
MalformedBody ==
    /\ ~req.body.ok
    /\ CreateRoute \/ MemberRoute("PUT")
    /\ Granted

MalformedJsonAnswered500 ==
    (Responded /\ MalformedBody) =>
        /\ StatusIs(500)
        /\ resp.body = [message |-> S("Unexpected token in JSON")]

(***************************************************************************)
(* C20, amended.  A create or update the authorization check let through,  *)
(* whose JSON body is malformed, is answered 400 with the message          *)
(* 'Invalid request data' by the route handler's own catch: the parse      *)
(* failure does not reach the router's catch, its message is not in the    *)
(* body, no storage or object-store call is made and both stores are as    *)
(* before, also when the request is multipart and carries an image file.   *)
(***************************************************************************)
MalformedJsonAnswered400 ==
    (Responded /\ MalformedBody) =>
        /\ StatusIs(400)
        /\ resp.body = Message("Invalid request data")
        /\ resp.calls = << >>
        /\ table = pre.table
        /\ s3 = pre.s3

\* a malformed multipart create with an image file was turned down
MalformedCreateWithImage ==
    /\ Responded /\ CreateRoute /\ Granted
    /\ ~req.body.ok
    /\ req.multipart /\ Has(req.form, "image")
    /\ StatusIs(400)
    /\ resp.calls = << >>

(***************************************************************************)
(* C21.  Method dispatch: a request whose method is none of GET, POST,     *)
(* PUT, DELETE, OPTIONS is answered 405, an OPTIONS request is answered    *)
(* 200, on any path and whatever the claims are (absent, refused by the    *)
(* authorization check, or of a form the check fails on); no storage or    *)
(* object-store call is made and both stores are as before.                *)
(***************************************************************************)
MethodDispatch ==
    (Responded /\ req.httpMethod \notin {"GET", "POST", "PUT", "DELETE"}) =>
        /\ IF req.httpMethod = "OPTIONS"
           THEN StatusIs(200) /\ resp.body = Message("OK")
           ELSE StatusIs(405) /\ resp.body = Message("Method not allowed")
        /\ resp.calls = << >>
        /\ table = pre.table
        /\ s3 = pre.s3

\* OPTIONS on a member's path, with role claims the authorization check
\* fails on, answered 200 while the table holds a member
OptionsWithoutCheck ==
    /\ Responded
    /\ req.httpMethod = "OPTIONS"
    /\ checkMemberAuthorization(req, PreWorld).threw
    /\ Len(Segments) = 3
    /\ DOMAIN table # {}
    /\ StatusIs(200)

(***************************************************************************)
(* C22.  On create, the record persisted has hp = 1 and level = 1 when hp  *)
(* or level is omitted or given as 0, and weight = 0 when weight is        *)
(* omitted or given as 0; a non-zero number given for one of them is       *)
(* persisted as given.                                                     *)
(***************************************************************************)
Persisted == table[resp.body.id]
Created ==
    /\ NamedCreate /\ StatusIs(201)
    /\ Has(resp.body, "id") /\ resp.body.id \in DOMAIN table \ DOMAIN pre.table

CreateDefaultsNumbers ==
    Created =>
        /\ Persisted.hp = NonZeroOr(Given, "hp", 1)
        /\ Persisted.level = NonZeroOr(Given, "level", 1)
        /\ Persisted.weight = NonZeroOr(Given, "weight", 0)

\* level 0 defaulted to 1 beside an hp and a weight persisted as given
ZeroLevelDefaulted ==
    /\ Created
    /\ Has(Given, "level") /\ Given.level = 0 /\ Persisted.level = 1
    /\ Has(Given, "hp") /\ Given.hp = 2 /\ Persisted.hp = 2
    /\ Has(Given, "weight") /\ Given.weight = 3 /\ Persisted.weight = 3

(***************************************************************************)
(* C23.  An upload whose filename ends in .mp4 is rejected, with no object *)
(* written, when its size is above 1048576 bytes, and is stored with its   *)
(* bytes unmodified under a key the store did not hold when its size is at *)
(* most 1048576 bytes.  The upload is made on every object store the       *)
(* requests leave behind, for sizes on both sides of the ceiling, and is   *)
(* followed in the create requests that carry such a file.                 *)
(***************************************************************************)
Mp4Sizes == {1, 512 * 1024, 1048575, 1048576, 1048577, 2 * 1048576}
Mp4Of(size) ==
    [filename |-> <<"clip", ".", "mp4">>, size |-> size, data |-> "d4",
     decodable |-> FALSE]
Mp4Upload(size) ==
    validateAndUploadImageToS3(World(table, s3, uuids), Mp4Of(size), "none")

StoredAsSent(before, after, file) ==
    \E key \in DOMAIN after \ DOMAIN before :
        /\ DOMAIN after = DOMAIN before \cup {key}
        /\ after[key].Body = [data |-> file.data, size |-> file.size]
        /\ \A other \in DOMAIN before : after[other] = before[other]

Mp4Form ==
    /\ req.multipart
    /\ Has(req.form, "image")
    /\ EndsWith(ToLowerCase(req.form.image.filename), <<".", "mp4">>)

Mp4SizeCeiling ==
    /\ pc = "idle" =>
           \A size \in Mp4Sizes :
               LET upload == Mp4Upload(size) IN
               IF size > 1048576
               THEN /\ ~upload.value.success
                    /\ upload.w.s3 = s3
                    /\ upload.w.calls = << >>
               ELSE /\ upload.value.success
                    /\ upload.value.imageUrl \notin DOMAIN s3
                    /\ StoredAsSent(s3, upload.w.s3, Mp4Of(size))
    /\ (Responded /\ CreateRoute /\ Granted /\ req.body.ok /\ Mp4Form) =>
           IF req.form.image.size > 1048576
           THEN s3 = pre.s3 /\ \A i \in 1..Len(resp.calls) : resp.calls[i].svc # "s3"
           ELSE req.fault # "s3" => StoredAsSent(pre.s3, s3, req.form.image)

\* a create carried a video of exactly 1048576 bytes into a store that held
\* an object, and the store can take a further one
VideoAtCeilingStored ==
    /\ Responded /\ CreateRoute /\ Granted /\ req.body.ok /\ Mp4Form
    /\ req.form.image.size = 1048576
    /\ DOMAIN pre.s3 # {}
    /\ StoredAsSent(pre.s3, s3, req.form.image)

(***************************************************************************)
(* Concurrent updates                                                      *)
(***************************************************************************)
Done(r) == flight.slots[r].pc = "done"

\* the two requests have run to their end on the same member, which existed
\* and was not removed meanwhile, with updates the service accepts and a
\* table that answers
BothWrote(X) ==
    /\ flight # NoFlight
    /\ X \in DOMAIN flight.before
    /\ flight.removed = {}
    /\ \A r \in Requests :
           /\ Done(r)
           /\ flight.slots[r].id = X
           /\ flight.slots[r].fault = "none"
           /\ DOMAIN flight.slots[r].updates # {}
           /\ Has(flight.slots[r].updates, "name")
                  => ~IsBlank(flight.slots[r].updates.name)

\* the requests whose updates set field f
SettersOf(f) == {r \in Requests : Has(flight.slots[r].updates, f)}

\* the request whose write completed last among those that set field f
LastSetter(f) ==
    flight.order[CHOOSE i \in DOMAIN flight.order :
                    /\ flight.order[i] \in SettersOf(f)
                    /\ \A j \in DOMAIN flight.order :
                           flight.order[j] \in SettersOf(f) => j <= i]

\* C24: two concurrent update requests on the same existing member both have
\* their write applied, whatever the interleaving; a field set by one or by
\* both holds the value of the last completed write that set it, and a field
\* set by neither holds what it held before
LastWriteWins ==
    \A X \in DOMAIN flight.before :
        BothWrote(X) =>
            /\ \A r \in Requests : flight.slots[r].result.success
            /\ Len(flight.order) = 2
            /\ X \in DOMAIN table
            /\ DOMAIN table[X] =
                   DOMAIN flight.before[X]
                   \cup UNION {DOMAIN flight.slots[r].updates : r \in Requests}
            /\ \A f \in DOMAIN table[X] :
                   table[X][f] =
                       IF SettersOf(f) = {} THEN flight.before[X][f]
                       ELSE flight.slots[LastSetter(f)].updates[f]

\* both requests set the name, to different values, one of them also sets a
\* field the other leaves alone, and both have written
BothSetName ==
    \E X \in DOMAIN flight.before :
        /\ BothWrote(X)
        /\ SettersOf("name") = Requests
        /\ flight.slots[1].updates.name # flight.slots[2].updates.name
        /\ SettersOf("title") = {flight.order[1]}
        /\ table[X].name = flight.slots[flight.order[2]].updates.name
        /\ table[X].title = flight.slots[flight.order[1]].updates.title
        /\ table[X].level = flight.before[X].level
(***************************************************************************)
(* Create with an image                                                    *)
(***************************************************************************)
CreateWithImage ==
    /\ Responded /\ CreateRoute /\ Granted
    /\ req.body.ok
    /\ req.multipart /\ Has(req.form, "image")

\* the positions in the request's call log of the calls to svc with op
CallsAt(svc, op) ==
    {i \in 1..Len(resp.calls) : resp.calls[i].svc = svc /\ resp.calls[i].op = op}

\* the objects the request put into the object store
PutKeys == {resp.calls[i].key : i \in {j \in CallsAt("s3", "Put") : resp.calls[j].ok}}

\* C25: a create with an image writes the object before it writes the member
\* and deletes no object afterwards; when the member is not written, the
\* object stays in the object store and no record has it as its image
UploadBeforeWriteNoCompensation ==
    CreateWithImage =>
        /\ \A i \in CallsAt("s3", "Put"), j \in CallsAt("ddb", "Put") : i < j
        /\ \A i \in 1..Len(resp.calls) :
               resp.calls[i].svc = "s3" => resp.calls[i].op = "Put"
        /\ req.fault # "s3" /\ ~ProcessFile(req.form.image,
                                            getFileType(req.form.image.filename)).threw
               => Cardinality(PutKeys) = 1
        /\ ~StatusIs(201) =>
               /\ table = pre.table
               /\ \A k \in PutKeys :
                      /\ k \in DOMAIN s3 \ DOMAIN pre.s3
                      /\ \A id \in DOMAIN table :
                             Has(table[id], "image") => table[id].image # k

\* the image was stored, then the member write failed: the object is there
OrphanedImage ==
    /\ CreateWithImage
    /\ req.fault = "write"
    /\ Cardinality(PutKeys) = 1
    /\ CallsAt("ddb", "Put") # {}
    /\ \A j \in CallsAt("ddb", "Put") : ~resp.calls[j].ok
    /\ StatusIs(500)
    /\ PutKeys \subseteq DOMAIN s3 \ DOMAIN pre.s3
(***************************************************************************)
(* The batch run                                                           *)
(***************************************************************************)
\* the counts of the loop, and the members of the last attempts
BatchCounts ==
    run.phase \in {"running", "done"} =>
        /\ run.i <= Len(run.selected)
        /\ run.successCount + run.errorCount = run.i
        /\ run.i >= 1 => run.last.member = run.selected[run.i]
        /\ run.i >= 2 => run.prev.member = run.selected[run.i - 1]
        /\ run.phase = "done" => run.i = Len(run.selected)

\* a step of the loop makes one attempt, on the next selected member, and
\* counts it once, whether it failed or not
OneAttempt ==
    run.phase = "running" =>
        /\ run'.selected = run.selected
        /\ \/ run'.i = run.i /\ run'.successCount = run.successCount
                              /\ run'.errorCount = run.errorCount
           \/ /\ run'.i = run.i + 1
              /\ run'.phase = "running"
              /\ run'.last.member = run.selected[run.i + 1]
              /\ run'.successCount + run'.errorCount
                     = run.successCount + run.errorCount + 1
              /\ run'.errorCount = run.errorCount + (IF run'.last.threw THEN 1 ELSE 0)

\* C26: in a batch run a failed sync does not end the run; the selected
\* members are attempted once each, one after the other in their order, the
\* run comes to its end, and then successCount + errorCount is the number of
\* selected members
BatchRunCompletes ==
    /\ []BatchCounts
    /\ [][OneAttempt]_vars
    /\ (run.phase = "running") ~> (run.phase = "done")

\* a run over two members is done: one sync failed, the next one succeeded
BatchDoneAfterFailure ==
    /\ run.phase = "done"
    /\ Len(run.selected) = 2
    /\ run.prev.threw /\ ~run.last.threw
    /\ run.errorCount = 1 /\ run.successCount = 1
(***************************************************************************)
(* Update against a deletion                                               *)
(***************************************************************************)
\* C27: update never creates a record: once the requests are over, the table
\* holds no record for an id whose deletion completed while they ran, also
\* when it completed between an update's existence check and its write
UpdateNeverCreates ==
    (flight # NoFlight /\ \A r \in Requests : Done(r)) =>
        \A X \in flight.removed : X \notin DOMAIN table
(***************************************************************************)
(* A rejected create and the object store                                  *)
(***************************************************************************)
\* C28: a create answered with VALIDATION_ERROR leaves the object store as
\* it was, also when the request is multipart and carries an image file
RejectedCreateWritesNoObject ==
    (/\ Responded /\ CreateRoute /\ Granted
     /\ ~resp.escaped
     /\ Has(resp.body, "code") /\ resp.body.code = "VALIDATION_ERROR") =>
        s3 = pre.s3
(***************************************************************************)
(* A failed sync and the vector stored before                              *)
(***************************************************************************)
\* C29: a sync of an active member that fails, at whatever step, leaves the
\* vector the index held for that member before the sync
FailedSyncKeepsVector ==
    (/\ SyncedOnce
     /\ Active(LastSync.member)
     /\ LastSync.threw
     /\ LastSync.had) =>
        vectorId(LastSync.member.id) \in DOMAIN index
(***************************************************************************)
(* The id of the path and the id of the body                               *)
(***************************************************************************)
PutOfMember == Responded /\ MemberRoute("PUT") /\ Len(Segments) = 3 /\ Granted

\* C30: PUT /members/member/{id} writes the record of the path's id only.
\* The id of the body is tested for presence (400 and no table call without
\* it); it is never the key of a table call nor a field the write stores,
\* and every record under another id, the body's included, stays as it was
PutKeyedByPath ==
    PutOfMember =>
        /\ DOMAIN table \ {Segments[3]} = DOMAIN pre.table \ {Segments[3]}
        /\ \A id \in DOMAIN table \ {Segments[3]} : table[id] = pre.table[id]
        /\ \A i \in 1..Len(resp.calls) :
               resp.calls[i].svc = "ddb" => resp.calls[i].key = Segments[3]
        /\ Segments[3] \in DOMAIN table => table[Segments[3]].id = Segments[3]
        /\ (req.body.ok /\ ~Truthy(req.body.value, "id")) =>
               /\ StatusIs(400)
               /\ resp.body = Message("Missing member ID")
               /\ table = pre.table
               /\ \A i \in 1..Len(resp.calls) : resp.calls[i].svc # "ddb"

\* an update sent to one member with the id of another in the body: the
\* record of the path changed, the record of the body's id did not
PutWithOtherIdInBody ==
    /\ PutOfMember
    /\ StatusIs(200)
    /\ req.body.value.id # Segments[3]
    /\ req.body.value.id \in DOMAIN pre.table
    /\ table[Segments[3]] # pre.table[Segments[3]]
    /\ table[req.body.value.id] = pre.table[req.body.value.id]
====
